---- MODULE Spec2Model ----
(***************************************************************************)
(* Verification model of ai_project_template.                              *)
(*                                                                         *)
(* create_project (src/src/command.rs) is modelled as a sequential         *)
(* procedure over a file tree: one action per statement group of the       *)
(* function (target check, target creation, one declared directory, one    *)
(* template, one empty file, the README), with the position of the call in *)
(* pc and i.  Every file-system call may fail for reasons the model does   *)
(* not see (permissions, disk space): that is a nondeterministic outcome   *)
(* of the call.                                                            *)
(***************************************************************************)
EXTENDS Integers, Sequences, FiniteSets, TLC

VARIABLES
    fs,         \* the project tree: path -> node
    presets,    \* the presets tree: path -> node
    cfg,        \* preset_config, the descriptor passed to create_project
    pc,         \* position of the running call, "idle" when none runs
    i,          \* index of the next item of the phase pc names
    args,       \* options of the running (or last) call: force, refresh
    log_lines,  \* log_lines of the running call
    result,     \* what the last call returned
    fs0,        \* history: the project tree when the last call started
    ops,        \* history: the file-system calls of the running (or last) call
    prev,       \* history: the call before the last one
    edited,     \* history: files edited by the user since the last call returned
    calls,      \* history: number of calls started
    loaded_from,    \* the preset_id the descriptor cfg was loaded with
    readme_inputs,  \* README generation alone: the inputs of the runs
    readmes,        \* README generation alone: the README each run wrote
    disk,       \* the ingestor: the file tree around target_dir: path -> node
    archive,    \* the ingestor: the entries of the archive behind zip_url
    xpc,        \* the ingestor: position of the running call, "idle" when none runs
    entry_i,    \* the ingestor: index of the next archive entry
    xresult,    \* the ingestor: what the last call returned
    disk0,      \* history: the tree when the last ingestor call started
    written,    \* history: the paths the extraction loop of the last call wrote
    first_run,  \* history: the ingestor call before the last one
    runs,       \* history: number of ingestor calls started
    environment,    \* the stored path: the variables of the process environment
    config_files,   \* the stored path: presets_path.txt below each home directory
    loaded_path,    \* the stored path: what load_presets_path_from_global_namespace returned
    shared,     \* two ingestor calls: the file tree both work on
    job,        \* two ingestor calls: target_dir, position, archive and result of each
    app,        \* the window: the fields of AppState
    commands,   \* the window: the commands of Command::perform that have not delivered their message
    user_msgs   \* the window: number of messages the user has caused, and of refreshes among them

\* what create_project reads and writes, and its history
createVars == <<fs, presets, cfg, pc, i, args, log_lines, result, fs0, ops, prev, edited, calls>>

readmeVars == <<readme_inputs, readmes>>

archiveVars == <<disk, archive, xpc, entry_i, xresult, disk0, written, first_run, runs>>

pathVars == <<environment, config_files, loaded_path>>

pairVars == <<shared, job>>

uiVars == <<app, commands, user_msgs>>

\* the callers of the two engines and what they keep
hostVars == <<pathVars, pairVars, uiVars>>

\* what a call of create_project leaves alone
outsideCreate == <<loaded_from, readmeVars, archiveVars, hostVars>>

vars == <<createVars, loaded_from, readmeVars, archiveVars, hostVars>>

(***************************************************************************)
(* Bounds of the model.                                                    *)
(***************************************************************************)
MaxDirs == 1
MaxTemplates == 2
MaxEmptyFiles == 1
MaxCalls == 2

(***************************************************************************)
(* Text is a sequence of characters; a file holds text.                    *)
(***************************************************************************)
RECURSIVE ReplaceAll(_, _, _)
\* str::replace: every non-overlapping match of pat in s, left to right
ReplaceAll(s, pat, rep) ==
    IF Len(pat) = 0 \/ Len(s) < Len(pat) THEN s
    ELSE IF SubSeq(s, 1, Len(pat)) = pat
         THEN rep \o ReplaceAll(SubSeq(s, Len(pat) + 1, Len(s)), pat, rep)
         ELSE <<s[1]>> \o ReplaceAll(Tail(s), pat, rep)

UpperChar(c) ==
    CASE c = "k" -> "K" [] c = "n" -> "N" [] c = "d" -> "D" [] c = "a" -> "A"
      [] c = "t" -> "T" [] c = "e" -> "E" [] OTHER -> c

LowerChar(c) ==
    CASE c = "K" -> "k" [] c = "N" -> "n" [] c = "D" -> "d" [] c = "A" -> "a"
      [] c = "T" -> "t" [] c = "E" -> "e" [] OTHER -> c

to_uppercase(s) == [n \in 1..Len(s) |-> UpperChar(s[n])]

to_lowercase(s) == [n \in 1..Len(s) |-> LowerChar(s[n])]

\* format!("{{{}}}", id)
Placeholder(id) == <<"{">> \o id \o <<"}">>

RECURSIVE SubstituteFields(_, _, _)
\* the loop over dynamic_fields, in the iteration order `order` of the map
SubstituteFields(text, fields, order) ==
    IF Len(order) = 0 THEN text
    ELSE LET field_id == order[1]
             value == fields[field_id]
             upper == ReplaceAll(text, Placeholder(to_uppercase(field_id)), value)
             lower == ReplaceAll(upper, Placeholder(to_lowercase(field_id)), value)
         IN  SubstituteFields(lower, fields, Tail(order))

\* the substitutions without the lower-case forms of the name and date tokens
ReadmeBodyUpperOnly(template, project_name, datetime, fields, order) ==
    LET n1 == ReplaceAll(template, <<"{", "P", "R", "O", "J", "E", "C", "T", "_", "N", "A", "M", "E", "}">>, project_name)
        d1 == ReplaceAll(n1, <<"{", "D", "A", "T", "E", "}">>, datetime)
    IN  SubstituteFields(d1, fields, order)

\* readme_content after the substitutions of project name, date and fields
ReadmeBody(template, project_name, datetime, fields, order) ==
    LET n1 == ReplaceAll(template, <<"{", "P", "R", "O", "J", "E", "C", "T", "_", "N", "A", "M", "E", "}">>, project_name)
        n2 == ReplaceAll(n1, <<"{", "p", "r", "o", "j", "e", "c", "t", "_", "n", "a", "m", "e", "}">>, project_name)
        d1 == ReplaceAll(n2, <<"{", "D", "A", "T", "E", "}">>, datetime)
        d2 == ReplaceAll(d1, <<"{", "d", "a", "t", "e", "}">>, datetime)
    IN  SubstituteFields(d2, fields, order)

\* the literal pieces of the format string of full_readme; the Cyrillic
\* letters of the source are written in Latin transliteration
CreatedLabel == <<"\n", "\n", "S", "o", "z", "d", "a", "n", "o", ":", " ">>

WhatNextHeading == <<"\n", "\n", "#", "#", " ", "C", "h", "t", "o", " ", "d", "a", "l", "s", "h", "e", "\n">>

\* full_readme: heading, creation line, "what next" heading, body
FullReadme(template, project_name, datetime, fields, order) ==
    <<"#", " ">> \o project_name \o CreatedLabel \o datetime \o WhatNextHeading
        \o ReadmeBody(template, project_name, datetime, fields, order)

\* the iteration orders of a map with the keys `keys`
Orders(keys) ==
    {o \in [1..Cardinality(keys) -> keys] : \A k \in keys : \E n \in DOMAIN o : o[n] = k}

(***************************************************************************)
(* The file trees.  A path is the sequence of its components below the     *)
(* root of its tree; a node is absent, a directory or a file.              *)
(***************************************************************************)
Absent == [kind |-> "none", data |-> <<>>]

Dir == [kind |-> "dir", data |-> <<>>]

File(bytes) == [kind |-> "file", data |-> bytes]

Parent(p) == SubSeq(p, 1, Len(p) - 1)

\* Path::join of a relative path
Join(base, rel) == base \o rel

\* project_path, the root of the project tree
project_path == <<>>

README == <<"README.md">>

\* the relative paths a descriptor may name
Paths == {<<"a">>, <<"a", "b">>, <<"c">>, README}

TreePaths == {project_path} \cup {Join(project_path, p) : p \in Paths}

\* Path::exists
Exists(f, p) == p \in DOMAIN f /\ f[p].kind # "none"

IsDir(f, p) == f[p].kind = "dir"

Children(f, p) == {q \in DOMAIN f : Len(q) = Len(p) + 1 /\ Parent(q) = p /\ Exists(f, q)}

\* the prefixes of p, the shortest first, p included
Prefixes(p) == [n \in 1..(Len(p) + 1) |-> SubSeq(p, 1, n - 1)]

\* fs::create_dir_all when nothing outside the tree makes it fail: every
\* missing prefix of p becomes a directory; an existing file on the way is an error
CreateDirAll(f, p) ==
    IF \E n \in 1..(Len(p) + 1) : f[Prefixes(p)[n]].kind = "file"
    THEN [ok |-> FALSE, fs |-> f]
    ELSE [ok |-> TRUE,
          fs |-> [q \in DOMAIN f |->
                    IF \E n \in 1..(Len(p) + 1) : Prefixes(p)[n] = q THEN Dir ELSE f[q]]]

\* every outcome of fs::create_dir_all: the one above, or a failure from
\* outside after some of the missing prefixes were created
CreateDirAllOutcomes(f, p) ==
    {CreateDirAll(f, p)} \cup
    {[ok |-> FALSE, fs |-> CreateDirAll(f, Prefixes(p)[n]).fs] :
        n \in {m \in 1..Len(p) : CreateDirAll(f, Prefixes(p)[m]).ok}} \cup
    {[ok |-> FALSE, fs |-> f]}

\* opening p for writing with create and truncate, then writing `bytes`, when
\* nothing outside the tree makes it fail: the file is created or replaced;
\* a directory at p, or a parent that is no directory, is an error
WriteFile(f, p, bytes) ==
    IF IsDir(f, p) \/ ~IsDir(f, Parent(p))
    THEN [ok |-> FALSE, fs |-> f]
    ELSE [ok |-> TRUE, fs |-> [f EXCEPT ![p] = File(bytes)]]

\* a creation that leaves the bytes of an existing file in place
CreateFileNoTruncateOutcomes(f, p) ==
    {IF f[p].kind = "file" THEN [ok |-> TRUE, fs |-> f] ELSE WriteFile(f, p, <<>>)}
        \cup {[ok |-> FALSE, fs |-> f]}

\* every outcome of File::create: the file created or truncated, or a failure
\* that leaves the tree as it was
CreateFileOutcomes(f, p) ==
    {WriteFile(f, p, <<>>)} \cup {[ok |-> FALSE, fs |-> f]}

\* every outcome of write_all on the file just created at p: all of `bytes`
\* written, or a failure that leaves the file without them
WriteAllOutcomes(f, p, bytes) ==
    {[ok |-> TRUE, fs |-> [f EXCEPT ![p] = File(bytes)]]} \cup {[ok |-> FALSE, fs |-> f]}

\* a copy that creates the destination and leaves it empty
CopyNoBytes(f, pre, src, dst) ==
    IF ~Exists(pre, src) \/ pre[src].kind # "file"
    THEN [ok |-> FALSE, fs |-> f]
    ELSE WriteFile(f, dst, <<>>)

\* fs::copy when nothing outside the trees makes it fail: the bytes of the
\* source file replace the destination; a source that is no file is an error
Copy(f, pre, src, dst) ==
    IF ~Exists(pre, src) \/ pre[src].kind # "file"
    THEN [ok |-> FALSE, fs |-> f]
    ELSE WriteFile(f, dst, pre[src].data)

\* every outcome of fs::copy: the one above, or a failure from outside before
\* the destination is touched or after it was truncated
CopyOutcomes(f, pre, src, dst) ==
    {Copy(f, pre, src, dst)} \cup
    {[ok |-> FALSE, fs |-> f]} \cup
    {[ok |-> FALSE, fs |-> WriteFile(f, dst, <<>>).fs]}

\* the error of a failed outcome dropped, as by .ok()
FailedIgnored(o) == FALSE

\* the `?` after map_err: the call returns the error of a failed outcome
Failed(o) == ~o.ok

(***************************************************************************)
(* Inputs of create_project.                                               *)
(***************************************************************************)
SeqsUpTo(S, n) == UNION {[1..k -> S] : k \in 0..n}

\* the preset directory the descriptor names, below presets_dir
PresetId == "software"

\* template sources a descriptor may name; "s3" is not in the preset directory
Sources == {<<"s1">>, <<"s2">>, <<"s3">>}

\* preset_source_dir = presets_dir.join(&preset_config.id)
preset_source_dir(config) == Join(<<>>, <<config.id>>)

PresetPaths == {Join(<<PresetId>>, s) : s \in Sources}

InitialPresets ==
    [q \in PresetPaths |->
        CASE q = <<PresetId, "s1">> -> File(<<"x">>)
          [] q = <<PresetId, "s2">> -> File(<<"y", "y">>)
          [] OTHER -> Absent]

\* the paths a descriptor of the model declares as directories, as template
\* destinations and as empty files: they overlap pairwise
DirPaths == {<<"a">>, <<"a", "b">>}

DestPaths == {<<"a", "b">>, README}

EmptyPaths == {<<"a">>, <<"c">>, README}

Templates == [source : Sources, destination : DestPaths]

ReadmeTemplate ==
    <<"{", "P", "R", "O", "J", "E", "C", "T", "_", "N", "A", "M", "E", "}", " ",
      "{", "d", "a", "t", "e", "}", " ", "{", "K", "}">>

\* the descriptors of the model: PresetConfig without the fields the core ignores
Descriptors ==
    [id : {PresetId},
     directories : SeqsUpTo(DirPaths, MaxDirs),
     templates : SeqsUpTo(Templates, MaxTemplates),
     empty_files : SeqsUpTo(EmptyPaths, MaxEmptyFiles),
     readme_template : {ReadmeTemplate}]

project_name == <<"d", "e", "m", "o">>

\* dynamic_fields as a set of (field_id, value) entries with distinct ids
dynamic_fields == {<<(<<"k">>), (<<"v">>)>>}

FieldIds(fields) == {e[1] : e \in fields}

FieldValue(fields) == [id \in FieldIds(fields) |-> (CHOOSE e \in fields : e[1] = id)[2]]

\* what chrono::Local::now().format("%Y-%m-%d %H:%M") may give
Timestamps ==
    {<<"2", "0", "2", "6", "-", "1", "1", "-", "0", "1", " ", "1", "0", ":", "0", "0">>,
     <<"2", "0", "2", "6", "-", "1", "1", "-", "0", "1", " ", "1", "0", ":", "0", "1">>}

\* the options maps of the model, as sets of (key, value) entries
OptionMaps ==
    {{},
     {<<"force", TRUE>>, <<"refresh", FALSE>>},
     {<<"force", FALSE>>, <<"refresh", TRUE>>},
     {<<"force", TRUE>>, <<"refresh", TRUE>>}}

\* options.get(key).copied().unwrap_or(false)
OptionGet(options, key) ==
    IF \E e \in options : e[1] = key
    THEN (CHOOSE e \in options : e[1] = key)[2]
    ELSE FALSE

force == OptionGet(args, "force")

refresh == OptionGet(args, "refresh")

\* the project tree before the first call
EmptyTree == [q \in TreePaths |-> Absent]

InitialTrees ==
    {EmptyTree,
     [EmptyTree EXCEPT ![project_path] = Dir],
     [EmptyTree EXCEPT ![project_path] = Dir, ![<<"c">>] = File(<<"u">>)],
     [EmptyTree EXCEPT ![project_path] = File(<<"u">>)]}

(***************************************************************************)
(* What a call returns, and the lines it logs.                             *)
(***************************************************************************)
\* an error string: the text of its format string and the paths it names
Error(msg, names) == [msg |-> msg, names |-> names]

NoError == Error("", <<>>)

NoResult == [status |-> "none", log |-> <<>>, err |-> NoError]

Ok(lines) == [status |-> "ok", log |-> lines, err |-> NoError]

Err(e) == [status |-> "err", log |-> <<>>, err |-> e]

SuccessLine == <<"Project created successfully!">>

NoCall == [args |-> {}, result |-> NoResult, edited |-> {}, calls |-> 0]

\* README generation alone has not been asked for
NoReadmeRuns ==
    /\ readme_inputs = [template |-> <<>>, fields |-> {}, declared |-> {}, datetime |-> <<>>]
    /\ readmes = <<>>

\* no ingestor call can run: there is no tree around a target_dir
NoIngestor ==
    /\ disk = <<>>
    /\ archive = <<>>
    /\ xpc = "off"
    /\ entry_i = 1
    /\ xresult = NoResult
    /\ disk0 = <<>>
    /\ written = {}
    /\ first_run = [result |-> NoResult, disk |-> <<>>]
    /\ runs = 0

\* the stored path is not asked for
NoPathLoad ==
    /\ environment = <<>>
    /\ config_files = <<>>
    /\ loaded_path = <<>>

\* no pair of ingestor calls runs
NoPair ==
    /\ shared = <<>>
    /\ job = <<>>

\* the window is not open
NoWindow ==
    /\ app = <<>>
    /\ commands = <<>>
    /\ user_msgs = [all |-> 0, refreshes |-> 0]

Init ==
    /\ fs \in InitialTrees
    /\ presets = InitialPresets
    /\ cfg \in Descriptors
    /\ pc = "idle"
    /\ i = 1
    /\ args = {}
    /\ log_lines = <<>>
    /\ result = NoResult
    /\ fs0 = fs
    /\ ops = <<>>
    /\ prev = NoCall
    /\ edited = {}
    /\ calls = 0
    /\ loaded_from = cfg.id
    /\ NoReadmeRuns
    /\ NoIngestor
    /\ NoPathLoad
    /\ NoPair
    /\ NoWindow

(***************************************************************************)
(* create_project.                                                         *)
(***************************************************************************)
\* the check of the target with the force flag read the wrong way round
TargetCheckForceInverted(f, frc) ==
    IF Exists(f, project_path)
    THEN IF ~IsDir(f, project_path)
         THEN Error("Failed to read project directory", <<>>)
         ELSE IF Children(f, project_path) # {} /\ frc
              THEN Error("Project directory already exists and is not empty", <<project_path>>)
              ELSE NoError
    ELSE NoError

\* the check of the target that rejects every existing directory
TargetCheckRejectsExisting(f, frc) ==
    IF Exists(f, project_path)
    THEN IF ~IsDir(f, project_path)
         THEN Error("Failed to read project directory", <<>>)
         ELSE IF ~frc
              THEN Error("Project directory already exists and is not empty", <<project_path>>)
              ELSE NoError
    ELSE NoError

\* the check of the target before anything is written: the error it returns,
\* or NoError when the call goes on
TargetCheck(f, frc) ==
    IF Exists(f, project_path)
    THEN IF ~IsDir(f, project_path)
         THEN Error("Failed to read project directory", <<>>)
         ELSE IF Children(f, project_path) # {} /\ ~frc
              THEN Error("Project directory already exists and is not empty", <<project_path>>)
              ELSE NoError
    ELSE NoError

PhaseLen(phase) ==
    CASE phase = "dirs" -> Len(cfg.directories)
      [] phase = "templates" -> Len(cfg.templates)
      [] phase = "empty" -> Len(cfg.empty_files)
      [] OTHER -> 0

\* the phases with the templates before the declared directories
PhaseAfterFilesFirst(phase) ==
    CASE phase = "root" -> "templates"
      [] phase = "templates" -> "dirs"
      [] phase = "dirs" -> "empty"
      [] OTHER -> "readme"

PhaseAfter(phase) ==
    CASE phase = "root" -> "dirs"
      [] phase = "dirs" -> "templates"
      [] phase = "templates" -> "empty"
      [] OTHER -> "readme"

RECURSIVE Enter(_)
\* the first item of `phase`, or of the first phase after it that has items
Enter(phase) ==
    IF phase = "readme" \/ PhaseLen(phase) >= 1
    THEN [pc |-> phase, i |-> 1]
    ELSE Enter(PhaseAfter(phase))

\* the position after item idx of `phase`
After(phase, idx) ==
    IF idx < PhaseLen(phase)
    THEN [pc |-> phase, i |-> idx + 1]
    ELSE Enter(PhaseAfter(phase))

\* the call goes on at `pos` with the tree f and the log `lines`
Goto(pos, f, lines) ==
    /\ pc' = pos.pc
    /\ i' = pos.i
    /\ fs' = f
    /\ log_lines' = lines
    /\ UNCHANGED result

\* the call returns r and leaves the tree f
Return(r, f) ==
    /\ pc' = "idle"
    /\ i' = 1
    /\ fs' = f
    /\ log_lines' = <<>>
    /\ result' = r

\* the skip test that forgets the refresh flag
SkipExistingAlways(f, path, rfr) == Exists(f, path)

\* the skip test with the refresh flag read the wrong way round
SkipExistingRefreshInverted(f, path, rfr) == Exists(f, path) /\ rfr

\* dest_path.exists() && !refresh, and the same test of the empty-file phase
SkipExisting(f, path, rfr) == Exists(f, path) /\ ~rfr

\* the README test that forgets the existing README
RefreshReadmeAlways(f, path, rfr) == TRUE

\* refresh || !readme_path.exists()
RefreshReadme(f, path, rfr) == rfr \/ ~Exists(f, path)

\* the call of create_project up to the check of the target
Call(options) ==
    /\ pc = "idle"
    /\ calls < MaxCalls
    /\ calls' = calls + 1
    /\ args' = options
    /\ fs0' = fs
    /\ prev' = [args |-> args, result |-> result, edited |-> edited, calls |-> calls]
    /\ edited' = {}
    /\ ops' = <<>>
    /\ UNCHANGED <<presets, cfg, outsideCreate>>
    /\ LET e == TargetCheck(fs, OptionGet(options, "force"))
       IN  IF e # NoError
           THEN Return(Err(e), fs)
           ELSE /\ pc' = "root"
                /\ i' = 1
                /\ fs' = fs
                /\ log_lines' = <<>>
                /\ result' = NoResult

\* an entry of the history ops: a file-system call with its outcome, or a
\* decision that makes no call
Op(op, path, ok) == [op |-> op, path |-> path, ok |-> ok]

\* the source test left out: a missing source reaches fs::copy
SourceMissingUnchecked(pre, source_path) == FALSE

\* !source_path.exists()
SourceMissing(pre, source_path) == ~Exists(pre, source_path)

\* 1. the project directory
RootStep ==
    /\ pc = "root"
    /\ UNCHANGED <<presets, cfg, args, fs0, prev, edited, calls, outsideCreate>>
    /\ LET lines == Append(log_lines, <<"Creating project directory", project_path>>)
       IN  \E o \in CreateDirAllOutcomes(fs, project_path) :
             /\ ops' = Append(ops, Op("mkdir", project_path, o.ok))
             /\ IF Failed(o)
                THEN Return(Err(Error("Failed to create project directory", <<>>)), o.fs)
                ELSE Goto(After("root", 1), o.fs, lines)

\* 2. one declared directory
DirStep ==
    /\ pc = "dirs"
    /\ UNCHANGED <<presets, cfg, args, fs0, prev, edited, calls, outsideCreate>>
    /\ LET dir_path == Join(project_path, cfg.directories[i])
           lines == Append(log_lines, <<"Creating subdirectory", dir_path>>)
       IN  \E o \in CreateDirAllOutcomes(fs, dir_path) :
             /\ ops' = Append(ops, Op("mkdir", dir_path, o.ok))
             /\ IF Failed(o)
                THEN Return(Err(Error("Failed to create directory", <<dir_path>>)), o.fs)
                ELSE Goto(After("dirs", i), o.fs, lines)

\* 3. one template
TemplateStep ==
    /\ pc = "templates"
    /\ UNCHANGED <<presets, cfg, args, fs0, prev, edited, calls, outsideCreate>>
    /\ LET template == cfg.templates[i]
           source_path == Join(preset_source_dir(cfg), template.source)
           dest_path == Join(project_path, template.destination)
       IN  IF SkipExisting(fs, dest_path, refresh)
           THEN /\ ops' = Append(ops, Op("skip", dest_path, TRUE))
                /\ Goto(After("templates", i), fs,
                        Append(log_lines, <<"Skipping existing file", dest_path>>))
           ELSE IF SourceMissing(presets, source_path)
           THEN /\ ops' = Append(ops, Op("warn", source_path, TRUE))
                /\ Goto(After("templates", i), fs,
                        Append(log_lines, <<"Warning: Template source not found", source_path>>))
           ELSE LET lines == Append(log_lines, <<"Copying template", source_path, dest_path>>)
                    parent == Parent(dest_path)
                IN  \E o1 \in CreateDirAllOutcomes(fs, parent) :
                      IF Failed(o1)
                      THEN /\ ops' = Append(ops, Op("mkparent", parent, o1.ok))
                           /\ Return(Err(Error("Failed to create parent directory for", <<dest_path>>)), o1.fs)
                      ELSE \E o2 \in CopyOutcomes(o1.fs, presets, source_path, dest_path) :
                             /\ ops' = ops \o <<Op("mkparent", parent, o1.ok), Op("copy", dest_path, o2.ok)>>
                             /\ IF Failed(o2)
                                THEN Return(Err(Error("Failed to copy template", <<source_path, dest_path>>)), o2.fs)
                                ELSE Goto(After("templates", i), o2.fs, lines)

\* 4. one empty file
EmptyFileStep ==
    /\ pc = "empty"
    /\ UNCHANGED <<presets, cfg, args, fs0, prev, edited, calls, outsideCreate>>
    /\ LET file_path == Join(project_path, cfg.empty_files[i])
       IN  IF SkipExisting(fs, file_path, refresh)
           THEN /\ ops' = Append(ops, Op("skip", file_path, TRUE))
                /\ Goto(After("empty", i), fs,
                        Append(log_lines, <<"Skipping existing empty file", file_path>>))
           ELSE LET lines == Append(log_lines, <<"Creating empty file", file_path>>)
                    parent == Parent(file_path)
                IN  \E o1 \in CreateDirAllOutcomes(fs, parent) :
                      IF Failed(o1)
                      THEN /\ ops' = Append(ops, Op("mkparent", parent, o1.ok))
                           /\ Return(Err(Error("Failed to create parent directory for", <<file_path>>)), o1.fs)
                      ELSE \E o2 \in CreateFileOutcomes(o1.fs, file_path) :
                             /\ ops' = ops \o <<Op("mkparent", parent, o1.ok), Op("touch", file_path, o2.ok)>>
                             /\ IF Failed(o2)
                                THEN Return(Err(Error("Failed to create empty file", <<file_path>>)), o2.fs)
                                ELSE Goto(After("empty", i), o2.fs, lines)

\* 5. the README, and the return of the log
ReadmeStep ==
    /\ pc = "readme"
    /\ UNCHANGED <<presets, cfg, args, fs0, prev, edited, calls, outsideCreate>>
    /\ LET readme_path == Join(project_path, README)
       IN  IF RefreshReadme(fs, readme_path, refresh)
           THEN \E datetime \in Timestamps, order \in Orders(FieldIds(dynamic_fields)) :
                  LET lines == Append(log_lines, <<"Generating README", readme_path>>)
                      full_readme == FullReadme(cfg.readme_template, project_name, datetime,
                                                FieldValue(dynamic_fields), order)
                  IN  \E o1 \in CreateFileOutcomes(fs, readme_path) :
                        IF Failed(o1)
                        THEN /\ ops' = Append(ops, Op("readme", readme_path, o1.ok))
                             /\ Return(Err(Error("Failed to create README", <<readme_path>>)), o1.fs)
                        ELSE \E o2 \in WriteAllOutcomes(o1.fs, readme_path, full_readme) :
                               /\ ops' = ops \o <<Op("readme", readme_path, o1.ok), Op("write", readme_path, o2.ok)>>
                               /\ IF Failed(o2)
                                  THEN Return(Err(Error("Failed to write README", <<>>)), o2.fs)
                                  ELSE Return(Ok(Append(lines, SuccessLine)), o2.fs)
           ELSE /\ ops' = Append(ops, Op("keep", readme_path, TRUE))
                /\ Return(Ok(Append(log_lines, SuccessLine)), fs)

(***************************************************************************)
(* The user, between two calls.                                            *)
(***************************************************************************)
EditedBytes == <<"e">>

\* the user replaces the content of a file of the project
Edit(p) ==
    /\ pc = "idle"
    /\ 1 <= calls
    /\ calls < MaxCalls
    /\ edited = {}
    /\ fs[p].kind = "file"
    /\ fs[p].data # EditedBytes
    /\ fs' = [fs EXCEPT ![p] = File(EditedBytes)]
    /\ edited' = {p}
    /\ UNCHANGED <<presets, cfg, pc, i, args, log_lines, result, fs0, ops, prev, calls, outsideCreate>>

Next ==
    \/ \E options \in OptionMaps : Call(options)
    \/ RootStep
    \/ DirStep
    \/ TemplateStep
    \/ EmptyFileStep
    \/ ReadmeStep
    \/ \E p \in TreePaths : Edit(p)

Spec == Init /\ [][Next]_vars

(***************************************************************************)
(* The claims.                                                             *)
(***************************************************************************)
\* the last call has returned and nobody has touched the tree since
Returned == pc = "idle" /\ calls >= 1 /\ edited = {}

NonEmptyDir(f, p) == IsDir(f, p) /\ Children(f, p) # {}

\* C1: a call on a target directory that exists and has an entry, with force
\* absent or false, returns an error that names the path, makes no
\* file-system call, and leaves every file and directory as it was.
C1_NonEmptyTargetRejected ==
    (calls >= 1 /\ NonEmptyDir(fs0, project_path) /\ ~force)
        => /\ pc = "idle"
           /\ result.status = "err"
           /\ \E n \in DOMAIN result.err.names : result.err.names[n] = project_path
           /\ ops = <<>>
           /\ edited = {} => fs = fs0

C1_Witness ==
    /\ Returned
    /\ NonEmptyDir(fs0, project_path)
    /\ ~force
    /\ result.status = "err"

\* the template the template phase is about to process
CurrentTemplate == cfg.templates[i]

CurrentSource == Join(<<cfg.id>>, CurrentTemplate.source)

CurrentDest == Join(project_path, CurrentTemplate.destination)

\* the entries this step adds to ops
NewOps == {n \in DOMAIN ops' : n > Len(ops)}

\* the call is still running after this step, one item further
MovedOn(phase) ==
    /\ UNCHANGED result
    /\ \/ pc' = phase /\ i' = i + 1
       \/ pc' \notin {phase, "idle"} /\ i = PhaseLen(phase)

\* C5: with refresh false, a template whose destination exists when it is
\* processed is logged as skipped and nothing is written, whether or not its
\* source exists; the call goes on with the next item.
C5_DontClobber ==
    [][(pc = "templates" /\ ~refresh /\ fs[CurrentDest].kind # "none")
            => /\ fs' = fs
               /\ log_lines' = Append(log_lines, <<"Skipping existing file", CurrentDest>>)
               /\ MovedOn("templates")]_vars

\* a template with a missing source was skipped over its existing destination,
\* and a later template was copied
C5_Witness ==
    /\ ~refresh
    /\ Len(cfg.templates) = 2
    /\ presets[Join(<<cfg.id>>, cfg.templates[1].source)].kind = "none"
    /\ \E n \in DOMAIN ops :
         /\ ops[n] = Op("skip", Join(project_path, cfg.templates[1].destination), TRUE)
         /\ \E m \in DOMAIN ops : m > n /\ ops[m].op = "copy" /\ ops[m].ok

C7_MissingSourceIsError ==
    (pc = "idle" /\ \E n \in DOMAIN ops : ops[n].op = "warn") => result.status = "err"

\* the generated README files, one for each time of day the clock may show
GeneratedReadmes ==
    {File(FullReadme(cfg.readme_template, project_name, t, FieldValue(dynamic_fields), o)) :
        t \in Timestamps, o \in Orders(FieldIds(dynamic_fields))}

\* C8: the README phase creates and writes README.md exactly when refresh is
\* true or README.md does not exist; otherwise README.md is left as it is.
\* A README written with success holds the generated text.
C8_ReadmeRegeneratedIff ==
    [][pc = "readme"
            => LET regenerated == \E n \in NewOps : ops'[n].op = "readme"
               IN  /\ regenerated <=> (refresh \/ fs[README].kind = "none")
                   /\ ~regenerated => fs' = fs
                   /\ (regenerated /\ result'.status = "ok") => fs'[README] \in GeneratedReadmes]_vars

\* a second call without refresh that kept the README the first call wrote
C8_Witness ==
    /\ Returned
    /\ calls = 2
    /\ ~refresh
    /\ result.status = "ok"
    /\ ops[Len(ops)].op = "keep"
    /\ fs[README] \in GeneratedReadmes

\* C10: a file-system call that fails ends the call at once: the call
\* returns an error and no log, the failed call is the last one it makes, and
\* whatever was on disk before the failed call is still there.
C10_FailureAborts ==
    [][(\E n \in NewOps : ~ops'[n].ok)
            => /\ pc' = "idle"
               /\ result'.status = "err"
               /\ result'.log = <<>>
               /\ \A n \in DOMAIN ops' : ~ops'[n].ok => n = Len(ops')
               /\ \A p \in TreePaths : fs[p].kind # "none" => fs'[p].kind = fs[p].kind]_vars

\* a call that failed after it had changed the tree
C10_Witness ==
    /\ Returned
    /\ result.status = "err"
    /\ Len(ops) >= 3
    /\ ~ops[Len(ops)].ok
    /\ fs # fs0
    /\ \E p \in TreePaths : fs[p].kind = "file"

(***************************************************************************)
(* What a descriptor declares.                                             *)
(***************************************************************************)
SourceOf(k) == Join(<<cfg.id>>, cfg.templates[k].source)

DestOf(k) == Join(project_path, cfg.templates[k].destination)

\* the templates whose source is a file of the preset directory
Copied == {k \in DOMAIN cfg.templates : presets[SourceOf(k)].kind = "file"}

DeclaredDirs == {Join(project_path, cfg.directories[n]) : n \in DOMAIN cfg.directories}

DeclaredEmpty == {Join(project_path, cfg.empty_files[n]) : n \in DOMAIN cfg.empty_files}

CopiedDests == {DestOf(k) : k \in Copied}

DeclaredFiles == CopiedDests \cup DeclaredEmpty \cup {Join(project_path, README)}

\* the directories above p, below the project directory
Ancestors(p) == {SubSeq(p, 1, n) : n \in 1..(Len(p) - 1)}

AncestorsOfDeclared == UNION {Ancestors(p) : p \in DeclaredDirs \cup DeclaredFiles}

\* no path is declared in two roles: two copied templates with one
\* destination have sources of equal content, and no path written as a file
\* (copied destination, empty file, README.md) is written as another kind of
\* file, is a declared directory, or lies above another declared path
NoCollision ==
    /\ \A j, k \in Copied : DestOf(j) = DestOf(k) => presets[SourceOf(j)] = presets[SourceOf(k)]
    /\ CopiedDests \cap DeclaredEmpty = {}
    /\ Join(project_path, README) \notin CopiedDests \cup DeclaredEmpty
    /\ DeclaredFiles \cap (DeclaredDirs \cup AncestorsOfDeclared) = {}

EmptyOrAbsent(f) == f[project_path].kind = "none" \/ (IsDir(f, project_path) /\ Children(f, project_path) = {})

\* the last call ran on an empty or absent target and returned success
FreshSuccess == Returned /\ result.status = "ok" /\ EmptyOrAbsent(fs0)

\* C2 as stated: after a successful call on an empty or absent target the
\* directories of the target are exactly the declared directories, every
\* template whose source exists is at its destination with the bytes of its
\* source, every declared empty file is a file of zero bytes, the files of the
\* target are exactly these and README.md, and README.md is the generated one.
C2_ExactlyTheDeclaredTree ==
    FreshSuccess
        => /\ \A p \in Paths : fs[p].kind = "dir" <=> p \in DeclaredDirs
           /\ \A p \in Paths : fs[p].kind = "file" <=> p \in DeclaredFiles
           /\ \A k \in Copied : fs[DestOf(k)] = File(presets[SourceOf(k)].data)
           /\ \A p \in DeclaredEmpty : fs[p] = File(<<>>)
           /\ fs[README] \in GeneratedReadmes

\* C2 as amended: the same for a descriptor that declares no path in two
\* roles, the directories being the declared ones and those above a declared
\* path.
C2_DeclaredTreeWithoutCollision ==
    (FreshSuccess /\ NoCollision)
        => /\ IsDir(fs, project_path)
           /\ \A p \in Paths : fs[p].kind = "dir" <=> p \in DeclaredDirs \cup AncestorsOfDeclared
           /\ \A p \in Paths : fs[p].kind = "file" <=> p \in DeclaredFiles
           /\ \A k \in Copied : fs[DestOf(k)] = File(presets[SourceOf(k)].data)
           /\ \A p \in DeclaredEmpty : fs[p] = File(<<>>)
           /\ fs[README] \in GeneratedReadmes

\* a successful call on an empty target with a directory, two templates (one
\* with a missing source) and an empty file, all on paths of their own
C2_Witness ==
    /\ FreshSuccess
    /\ NoCollision
    /\ cfg.directories # <<>>
    /\ Copied # {}
    /\ Copied # DOMAIN cfg.templates
    /\ cfg.empty_files # <<>>

IsSkipLine(line) == line[1] \in {"Skipping existing file", "Skipping existing empty file", "Skipping existing README"}

\* the last call is the second of two successful calls with the same
\* options, and nothing was edited between them
SecondOfTwo ==
    /\ Returned
    /\ calls = 2
    /\ prev.calls = 1
    /\ prev.result.status = "ok"
    /\ prev.edited = {}
    /\ prev.args = args
    /\ result.status = "ok"

\* C3: the second of two successful calls with the same inputs and refresh
\* false leaves the tree as the first call left it, and its log has a skip
\* line for every template, every empty file and the README.
C3_SecondRunSkipsEverything ==
    (SecondOfTwo /\ ~refresh)
        => /\ fs = fs0
           /\ Len(SelectSeq(result.log, IsSkipLine)) = Len(cfg.templates) + Len(cfg.empty_files) + 1

\* the last call was a successful call with refresh after a successful call
\* and the edit of a template destination
RefreshAfterEdit ==
    /\ Returned
    /\ calls = 2
    /\ prev.result.status = "ok"
    /\ prev.edited # {}
    /\ prev.edited \subseteq {DestOf(k) : k \in DOMAIN cfg.templates}
    /\ refresh
    /\ result.status = "ok"

\* C4 as stated: after a successful call, the edit of a template destination
\* and a successful call with refresh, the destination of every template
\* whose source exists holds the bytes of that source.
C4_RefreshRestoresEveryTemplate ==
    RefreshAfterEdit => \A k \in Copied : fs[DestOf(k)] = File(presets[SourceOf(k)].data)

\* the destination of template k is written again later in the call: by a
\* later template with another content, as an empty file, or as README.md
WrittenAgain(k) ==
    \/ \E j \in Copied : j > k /\ DestOf(j) = DestOf(k) /\ presets[SourceOf(j)] # presets[SourceOf(k)]
    \/ DestOf(k) \in DeclaredEmpty
    \/ DestOf(k) = Join(project_path, README)

\* C4 as amended: the same for every template whose destination the call
\* does not write again after the copy.
C4_RefreshRestoresTemplate ==
    RefreshAfterEdit
        => \A k \in Copied : ~WrittenAgain(k) => fs[DestOf(k)] = File(presets[SourceOf(k)].data)

\* the edited destination of a template is back to the bytes of its source
C4_Witness ==
    /\ RefreshAfterEdit
    /\ \E k \in Copied :
         /\ ~WrittenAgain(k)
         /\ DestOf(k) \in prev.edited
         /\ fs0[DestOf(k)] = File(EditedBytes)
         /\ fs[DestOf(k)] = File(presets[SourceOf(k)].data)

\* the entries of ops that are an action or a decision of their own: the
\* creation of parent directories belongs to the copy or the creation that
\* follows it, the write of the README to its creation
IsDecision(o) == o.op \notin {"mkparent", "write"}

\* C9: the log a successful call returns has one line for every action or
\* decision of the call (create, copy, skip, warn, generate or keep the
\* README), in the order they were made, and then the success line.
C9_LogReflectsEveryDecision ==
    (Returned /\ result.status = "ok")
        => LET decisions == SelectSeq(ops, IsDecision)
           IN  /\ Len(result.log) = Len(decisions) + 1
               /\ \A n \in DOMAIN decisions :
                    LET line == result.log[n]
                    IN  Len(line) >= 2 /\ line[Len(line)] = decisions[n].path
               /\ result.log[Len(result.log)] = SuccessLine

(***************************************************************************)
(* README generation alone: the statements of create_project that build    *)
(* full_readme, run on inputs with several fields.  dynamic_fields is a    *)
(* HashMap, so the loop over it runs in an order the map chooses.          *)
(***************************************************************************)
MaxReadmeRuns == 2
MaxFields == 2

\* field ids: two that differ only by case, and one that spells the date token
FieldIdPool == {<<"k">>, <<"K">>, <<"n">>, <<"d", "a", "t", "e">>}

\* field values: plain text, and the placeholder of the field "n"
FieldValuePool == {<<"v">>, <<"w">>, <<"{", "N", "}">>}

\* the maps dynamic_fields may be: entries with distinct keys
FieldMaps ==
    {m \in SUBSET (FieldIdPool \X FieldValuePool) :
        /\ Cardinality(m) <= MaxFields
        /\ \A e1, e2 \in m : e1[1] = e2[1] => e1 = e2}

\* readme_template of a descriptor: every token once, a token twice, a nested brace
ReadmeTemplates ==
    {ReadmeTemplate,
     <<"{", "p", "r", "o", "j", "e", "c", "t", "_", "n", "a", "m", "e", "}",
       "{", "D", "A", "T", "E", "}", "{", "k", "}", "{", "N", "}", "{", "K", "}">>,
     <<"{", "{", "K", "}", "}">>}

\* the ids of the fields a descriptor declares (PresetConfig.fields)
DeclaredFieldSets == {{<<"k">>}, {<<"k">>, <<"n">>}}

\* no call of create_project runs
NoCreate ==
    /\ fs = EmptyTree
    /\ presets = InitialPresets
    /\ cfg = [id |-> PresetId, directories |-> <<>>, templates |-> <<>>,
              empty_files |-> <<>>, readme_template |-> ReadmeTemplate]
    /\ pc = "off"
    /\ i = 1
    /\ args = {}
    /\ log_lines = <<>>
    /\ result = NoResult
    /\ fs0 = fs
    /\ ops = <<>>
    /\ prev = NoCall
    /\ edited = {}
    /\ calls = 0
    /\ loaded_from = cfg.id

ReadmeInit ==
    /\ readme_inputs \in [template : ReadmeTemplates, fields : FieldMaps,
                          declared : DeclaredFieldSets, datetime : Timestamps]
    /\ readmes = <<>>
    /\ NoCreate
    /\ NoIngestor
    /\ NoPathLoad
    /\ NoPair
    /\ NoWindow

\* one run of the README statements on readme_inputs; the clock gives the
\* same minute to every run
Generate ==
    /\ Len(readmes) < MaxReadmeRuns
    /\ \E order \in Orders(FieldIds(readme_inputs.fields)) :
         readmes' = Append(readmes,
                           FullReadme(readme_inputs.template, project_name, readme_inputs.datetime,
                                      FieldValue(readme_inputs.fields), order))
    /\ UNCHANGED <<readme_inputs, createVars, loaded_from, archiveVars, hostVars>>

ReadmeNext == Generate

ReadmeSpec == ReadmeInit /\ [][ReadmeNext]_vars

\* the (token, replacement) pairs the specification of the README names
Substitutions(in) ==
    {<<Placeholder(<<"P", "R", "O", "J", "E", "C", "T", "_", "N", "A", "M", "E">>), project_name>>,
     <<Placeholder(<<"p", "r", "o", "j", "e", "c", "t", "_", "n", "a", "m", "e">>), project_name>>,
     <<Placeholder(<<"D", "A", "T", "E">>), in.datetime>>,
     <<Placeholder(<<"d", "a", "t", "e">>), in.datetime>>}
    \cup {<<Placeholder(to_uppercase(e[1])), e[2]>> : e \in in.fields}
    \cup {<<Placeholder(to_lowercase(e[1])), e[2]>> : e \in in.fields}

RECURSIVE ParallelSubstitute(_, _)
\* every occurrence of a token in s replaced by its replacement, in one pass
\* over s: replaced text is not read again
ParallelSubstitute(s, subs) ==
    IF Len(s) = 0 THEN <<>>
    ELSE LET m == {e \in subs : Len(e[1]) <= Len(s) /\ SubSeq(s, 1, Len(e[1])) = e[1]}
         IN  IF m = {}
             THEN <<s[1]>> \o ParallelSubstitute(Tail(s), subs)
             ELSE LET e == CHOOSE x \in m : TRUE
                  IN  e[2] \o ParallelSubstitute(SubSeq(s, Len(e[1]) + 1, Len(s)), subs)

StartsWith(s, t) == Len(t) <= Len(s) /\ SubSeq(s, 1, Len(t)) = t

EndsWith(s, t) == Len(t) <= Len(s) /\ SubSeq(s, Len(s) - Len(t) + 1, Len(s)) = t

\* r is the heading "# <project_name>" on a line of its own, then the
\* template of `in` with every token replaced
HeadingThenSubstituted(r, in) ==
    /\ StartsWith(r, <<"#", " ">> \o project_name \o <<"\n">>)
    /\ EndsWith(r, ParallelSubstitute(in.template, Substitutions(in)))

IsBrace(c) == c \in {"{", "}"}

\* the braces of s come in pairs, an opening one and then a closing one
BracesPaired(s) ==
    LET b == SelectSeq(s, IsBrace)
    IN  /\ Len(b) % 2 = 0
        /\ \A n \in DOMAIN b : b[n] = IF n % 2 = 1 THEN "{" ELSE "}"

\* no substitution can touch what another one reads or writes
Independent(in) ==
    /\ \A e1, e2 \in in.fields : e1 # e2 => to_lowercase(e1[1]) # to_lowercase(e2[1])
    /\ \A e \in in.fields :
         to_lowercase(e[1]) \notin {<<"d", "a", "t", "e">>,
                                    <<"p", "r", "o", "j", "e", "c", "t", "_", "n", "a", "m", "e">>}
    /\ \A e \in in.fields : SelectSeq(e[2], IsBrace) = <<>>
    /\ BracesPaired(in.template)

\* C11 as stated: for every template and field mapping, the generated README
\* is the heading "# <projectName>" followed by the template in which every
\* {PROJECT_NAME} and {project_name} is the project name, every {DATE} and
\* {date} the timestamp, and every {ID} and {id} of an entry its value.
C11_EveryPlaceholderReplaced ==
    \A n \in DOMAIN readmes : HeadingThenSubstituted(readmes[n], readme_inputs)

\* C11, amended: the same, for inputs whose substitutions are independent:
\* field ids pairwise distinct ignoring case and none of them "date" or
\* "project_name", no brace in a field value, and the braces of the template
\* paired (no nested or stray brace).
C11_PlaceholdersReplacedWhenIndependent ==
    Independent(readme_inputs)
        => \A n \in DOMAIN readmes : HeadingThenSubstituted(readmes[n], readme_inputs)

\* a README was generated from the template that has every token, one of
\* them twice, with two independent fields
C11_Witness ==
    /\ Len(readmes) >= 1
    /\ Independent(readme_inputs)
    /\ Cardinality(readme_inputs.fields) = 2
    /\ Len(readme_inputs.template) > Len(ReadmeTemplate)
    /\ readmes[1] # <<"#", " ">> \o project_name \o CreatedLabel \o readme_inputs.datetime
                        \o WhatNextHeading \o readme_inputs.template

\* the field mapping with every declared field that has no entry set to ""
WithAbsentAsEmpty(in) ==
    in.fields \cup {<<id, <<>>>> : id \in in.declared \ FieldIds(in.fields)}

\* C12: a declared field without an entry in the field mapping counts as the
\* empty string: the README is the one the mapping with that field set to ""
\* gives.
C12_AbsentFieldIsEmpty ==
    \A n \in DOMAIN readmes :
        \E order \in Orders(FieldIds(WithAbsentAsEmpty(readme_inputs))) :
            readmes[n] = FullReadme(readme_inputs.template, project_name, readme_inputs.datetime,
                                    FieldValue(WithAbsentAsEmpty(readme_inputs)), order)

\* C13: the README is a function of the template, the project name, the
\* timestamp and the field mapping: two runs on the same inputs with the same
\* timestamp write the same README.
C13_ReadmeDeterministic ==
    \A a, b \in DOMAIN readmes : readmes[a] = readmes[b]

(***************************************************************************)
(* Loading a descriptor and creating a project from it: load_preset_config *)
(* reads presets_dir/<preset_id>/files_config.json, and create_project     *)
(* gets the descriptor it returned.                                        *)
(***************************************************************************)
MaxLoadedTemplates == 1

\* the directories below presets_dir: two presets, one whose files_config.json
\* is no JSON, and a name without a directory
PresetIds == {"software", "book", "broken", "novel"}

ConfigFile == "files_config.json"

\* the content of a files_config.json: text that is JSON for the PresetConfig
\* `value`, or text that serde_json rejects
Document(value) == [json |-> TRUE, value |-> value]

NotJson == [json |-> FALSE, value |-> <<>>]

\* the descriptors files_config.json of the directory "software" may hold: the
\* field preset_id is free text of the file
LoadableDescriptors ==
    [id : {"software", "book"},
     directories : SeqsUpTo({<<"a">>}, MaxDirs),
     templates : SeqsUpTo(Templates, MaxLoadedTemplates),
     empty_files : SeqsUpTo({<<"c">>}, MaxEmptyFiles),
     readme_template : {ReadmeTemplate}]

BookDescriptor ==
    [id |-> "book", directories |-> <<>>, templates |-> <<[source |-> <<"s1">>, destination |-> README]>>,
     empty_files |-> <<>>, readme_template |-> ReadmeTemplate]

LoadablePaths ==
    {<<id, ConfigFile>> : id \in PresetIds} \cup {Join(<<id>>, src) : id \in PresetIds, src \in Sources}

\* presets_dir with `software` in software/files_config.json; the template
\* files of the two presets have the same names and different bytes
LoadablePresets(software) ==
    [q \in LoadablePaths |->
        CASE q = <<"software", ConfigFile>> -> File(<<Document(software)>>)
          [] q = <<"book", ConfigFile>> -> File(<<Document(BookDescriptor)>>)
          [] q = <<"broken", ConfigFile>> -> File(<<NotJson>>)
          [] q = <<"software", "s1">> -> File(<<"x">>)
          [] q = <<"software", "s2">> -> File(<<"y", "y">>)
          [] q = <<"book", "s1">> -> File(<<"z">>)
          [] OTHER -> Absent]

\* load_preset_config(presets_dir, preset_id)
load_preset_config(pre, preset_id) ==
    LET config_path == Join(<<preset_id>>, <<ConfigFile>>)
    IN  IF ~Exists(pre, config_path) \/ pre[config_path].kind # "file"
        THEN [status |-> "err", err |-> Error("Failed to read preset config from", <<config_path>>)]
        ELSE LET content == pre[config_path].data[1]
             IN  IF ~content.json
                 THEN [status |-> "err", err |-> Error("Failed to parse preset config", <<>>)]
                 ELSE [status |-> "ok", config |-> content.value]

PresetInit ==
    /\ fs \in InitialTrees
    /\ \E software \in LoadableDescriptors : presets = LoadablePresets(software)
    /\ loaded_from = "software"
    /\ cfg = load_preset_config(presets, loaded_from).config
    /\ pc = "idle"
    /\ i = 1
    /\ args = {}
    /\ log_lines = <<>>
    /\ result = NoResult
    /\ fs0 = fs
    /\ ops = <<>>
    /\ prev = NoCall
    /\ edited = {}
    /\ calls = 0
    /\ NoReadmeRuns
    /\ NoIngestor
    /\ NoPathLoad
    /\ NoPair
    /\ NoWindow

\* the caller loads the descriptor of preset_id; create_project gets the
\* descriptor of the last load that succeeded
LoadPresetConfig(preset_id) ==
    /\ pc = "idle"
    /\ calls < MaxCalls
    /\ LET loaded == load_preset_config(presets, preset_id)
       IN  IF loaded.status = "ok"
           THEN /\ cfg' = loaded.config
                /\ loaded_from' = preset_id
           ELSE UNCHANGED <<cfg, loaded_from>>
    /\ UNCHANGED <<fs, presets, pc, i, args, log_lines, result, fs0, ops, prev, edited, calls,
                   readmeVars, archiveVars, hostVars>>

PresetNext ==
    \/ \E preset_id \in PresetIds : LoadPresetConfig(preset_id)
    \/ Next

PresetSpec == PresetInit /\ [][PresetNext]_vars

\* the template source of the running step, below the directory the
\* descriptor was loaded from
LoadedSource == Join(<<loaded_from>>, CurrentTemplate.source)

\* C14: every template step reads its source from
\* presets_dir/<preset_id>/<source>, the directory the descriptor was loaded
\* from: it copies the bytes of that file, and it warns of a missing source
\* only when that file is missing.
C14_SourcesFromLoadedDirectory ==
    [][pc = "templates" =>
        \A n \in NewOps :
            /\ (ops'[n].op = "copy" /\ ops'[n].ok) =>
                   /\ presets[LoadedSource].kind = "file"
                   /\ fs'[CurrentDest].data = presets[LoadedSource].data
            /\ ops'[n].op = "warn" => ~Exists(presets, LoadedSource)]_vars

(***************************************************************************)
(* The archive ingestor, download_and_extract_presets (src/src/presets.rs):*)
(* one action for the download up to the opened archive, one per archive   *)
(* entry, one for the removal of the temporary file and the return.        *)
(* Unix permissions of the entries are left out: set_permissions changes   *)
(* neither the existence nor the content of a file, and its errors are     *)
(* dropped.                                                                *)
(***************************************************************************)
MaxEntries == 2
\* the messages the user may cause in one behaviour of the window
MaxUserMsgs == 4

\* the times the user may press Refresh Presets
MaxRefreshes == 2

\* the lines at the end of the log of the window that the state keeps
LogWindow == 1

MaxRuns == 2

\* the root folder of the published archive
RootPrefix == "ai_prompt_presets-main"

target_dir == <<"t">>

\* a temporary file placed in target_dir itself
TempZipInTarget == Join(target_dir, <<"presets_temp.zip">>)

\* dir.parent().unwrap_or(dir).join("presets_temp.zip"): a path without
\* components has no parent
TempZip(dir) == Join(IF Len(dir) = 0 THEN dir ELSE Parent(dir), <<"presets_temp.zip">>)

\* target_dir.parent().unwrap_or(target_dir).join("presets_temp.zip")
temp_zip == TempZip(target_dir)

\* the name of an archive entry: absolute or relative, and its components
EntryName(abs, parts) == [abs |-> abs, parts |-> parts]

\* names of file entries: below the root folder, without it, with its name
\* further down, a name that climbs out after the root folder, one that
\* climbs out and comes back into target_dir, one that climbs out at once,
\* and an absolute one
FileNames ==
    {EntryName(FALSE, <<RootPrefix, "a", "b">>),
     EntryName(FALSE, <<"a", "b">>),
     EntryName(FALSE, <<"a", RootPrefix>>),
     EntryName(FALSE, <<"k">>),
     EntryName(FALSE, <<RootPrefix, "..", "x">>),
     EntryName(FALSE, <<RootPrefix, "..">> \o target_dir \o <<"m">>),
     EntryName(FALSE, <<"..", "x">>),
     EntryName(TRUE, <<"x">>)}

\* names of directory entries (they end with '/')
DirNames == {EntryName(FALSE, <<RootPrefix>>), EntryName(FALSE, <<RootPrefix, "a">>)}

EntryData == {<<"p">>, <<"q">>}

Entries ==
    [name : FileNames, dir : {FALSE}, data : EntryData] \cup [name : DirNames, dir : {TRUE}, data : {<<>>}]

Archives == SeqsUpTo(Entries, MaxEntries)

\* the paths of the tree around target_dir
DiskPaths ==
    {<<>>, temp_zip, TempZipInTarget, <<"x">>, target_dir,
     Join(target_dir, <<"a">>), Join(target_dir, <<"a", "b">>), Join(target_dir, <<"a", RootPrefix>>),
     Join(target_dir, <<"k">>), Join(target_dir, <<"m">>)}

EmptyDisk == [q \in DiskPaths |-> IF q = <<>> THEN Dir ELSE Absent]

\* the tree before the first call: no target_dir; an empty one; one with the
\* files k and m; one with a/b and m; one where a is a file
InitialDisks ==
    {EmptyDisk,
     [EmptyDisk EXCEPT ![target_dir] = Dir],
     [EmptyDisk EXCEPT ![target_dir] = Dir, ![Join(target_dir, <<"k">>)] = File(<<"u">>),
                       ![Join(target_dir, <<"m">>)] = File(<<"u">>)],
     [EmptyDisk EXCEPT ![target_dir] = Dir, ![Join(target_dir, <<"a">>)] = Dir,
                       ![Join(target_dir, <<"a", "b">>)] = File(<<"u">>),
                       ![Join(target_dir, <<"m">>)] = File(<<"u">>)],
     [EmptyDisk EXCEPT ![target_dir] = Dir, ![Join(target_dir, <<"a">>)] = File(<<"u">>),
                       ![Join(target_dir, <<"m">>)] = File(<<"u">>)]}

\* what reqwest::get(zip_url) and the reading of the body may give
Responses == {"unreachable", "status", "body", "not_zip", "zip"}

\* the bytes of the body
ResponseBytes(response) == IF response = "zip" THEN <<"P", "K">> ELSE <<"<">>

None == [some |-> FALSE, path |-> <<>>]

Some(path) == [some |-> TRUE, path |-> path]

\* the number of components of parts[1..n] that are names, less the number that are ".."
Depth(parts, n) ==
    Cardinality({m \in 1..n : parts[m] # ".."}) - Cardinality({m \in 1..n : parts[m] = ".."})

\* ZipFile::enclosed_name: no name for an absolute path and for a path that
\* at some component has climbed above its start; else the path as it is
enclosed_name(name) ==
    IF name.abs \/ \E n \in 1..Len(name.parts) : Depth(name.parts, n) < 0
    THEN None
    ELSE Some(name.parts)

\* the root folder taken out wherever it stands in the path
StripPrefixAnywhere(outpath) == SelectSeq(outpath, LAMBDA c : c # RootPrefix)

\* outpath.starts_with("ai_prompt_presets-main/") and strip_prefix: both
\* compare whole components
StripPrefix(outpath) ==
    IF Len(outpath) >= 1 /\ outpath[1] = RootPrefix THEN Tail(outpath) ELSE outpath

RECURSIVE Resolve(_, _)
\* the node a path names: ".." leads to the parent of what precedes it
Resolve(done, rest) ==
    IF Len(rest) = 0 THEN done
    ELSE IF rest[1] = ".."
         THEN Resolve(IF Len(done) = 0 THEN done ELSE Parent(done), Tail(rest))
         ELSE Resolve(Append(done, rest[1]), Tail(rest))

Resolved(p) == Resolve(<<>>, p)

\* the nodes create_dir_all(p) walks through
OnTheWay(p) == {Resolved(SubSeq(p, 1, n)) : n \in 0..Len(p)}

\* fs::create_dir_all of a path that may hold "..", when nothing outside the
\* tree makes it fail
CreateDirAllVia(f, p) ==
    IF \E q \in OnTheWay(p) : f[q].kind = "file"
    THEN [ok |-> FALSE, fs |-> f]
    ELSE [ok |-> TRUE, fs |-> [q \in DOMAIN f |-> IF q \in OnTheWay(p) THEN Dir ELSE f[q]]]

\* every outcome of it: the one above, or a failure from outside after some
\* of the missing directories were created
CreateDirAllViaOutcomes(f, p) ==
    {CreateDirAllVia(f, p)} \cup
    {[ok |-> FALSE, fs |-> CreateDirAllVia(f, SubSeq(p, 1, n)).fs] :
        n \in {m \in 0..(Len(p) - 1) : CreateDirAllVia(f, SubSeq(p, 1, m)).ok}} \cup
    {[ok |-> FALSE, fs |-> f]}

\* the entry written only where no file is yet
ExtractFileIfAbsentOutcomes(f, p, bytes) ==
    IF f[p].kind = "file"
    THEN {[ok |-> TRUE, fs |-> f]}
    ELSE {WriteFile(f, p, bytes), [ok |-> FALSE, fs |-> f]}

\* the entry written behind the bytes the file already has
ExtractFileAppendOutcomes(f, p, bytes) ==
    IF f[p].kind = "file"
    THEN {[ok |-> TRUE, fs |-> [f EXCEPT ![p] = File(f[p].data \o bytes)]], [ok |-> FALSE, fs |-> f]}
    ELSE {WriteFile(f, p, bytes), [ok |-> FALSE, fs |-> f]}

\* File::create(&full_path) and io::copy of the entry into it: the file
\* created or truncated and then filled, a failure of the creation, or a
\* failure of the copy that leaves the file without the bytes
ExtractFileOutcomes(f, p, bytes) ==
    {IF o1.ok THEN o2 ELSE o1 : o1 \in CreateFileOutcomes(f, p), o2 \in WriteAllOutcomes(WriteFile(f, p, <<>>).fs, p, bytes)}

\* a removal that takes everything beside the file with it
RemoveFileAndSiblings(f, p) ==
    [q \in DOMAIN f |-> IF Len(q) >= 1 THEN Absent ELSE f[q]]

\* fs::remove_file when it succeeds
RemoveFile(f, p) == IF f[p].kind = "file" THEN [f EXCEPT ![p] = Absent] ELSE f

IngestInit ==
    /\ disk \in InitialDisks
    /\ archive \in Archives
    /\ xpc = "idle"
    /\ entry_i = 1
    /\ xresult = NoResult
    /\ disk0 = disk
    /\ written = {}
    /\ first_run = [result |-> NoResult, disk |-> disk]
    /\ runs = 0
    /\ NoCreate
    /\ NoReadmeRuns
    /\ NoPathLoad
    /\ NoPair
    /\ NoWindow

\* the call returns r and leaves the tree f
XReturn(r, f) ==
    /\ xpc' = "idle"
    /\ entry_i' = 1
    /\ xresult' = r
    /\ disk' = f

\* the call and its steps up to ZipArchive::new
Download ==
    /\ xpc = "idle"
    /\ runs < MaxRuns
    /\ runs' = runs + 1
    /\ disk0' = disk
    /\ written' = {}
    /\ first_run' = [result |-> xresult, disk |-> disk]
    /\ UNCHANGED <<archive, createVars, loaded_from, readmeVars, hostVars>>
    /\ \E response \in Responses :
         CASE response = "unreachable" -> XReturn(Err(Error("Failed to download from", <<>>)), disk)
           [] response = "status" -> XReturn(Err(Error("HTTP error", <<>>)), disk)
           [] response = "body" -> XReturn(Err(Error("Failed to read response bytes", <<>>)), disk)
           [] OTHER ->
                \E o1 \in CreateFileOutcomes(disk, temp_zip) :
                  IF Failed(o1)
                  THEN XReturn(Err(Error("Failed to create temp file", <<temp_zip>>)), o1.fs)
                  ELSE \E o2 \in WriteAllOutcomes(o1.fs, temp_zip, ResponseBytes(response)) :
                         IF Failed(o2)
                         THEN XReturn(Err(Error("Failed to write temp file", <<>>)), o2.fs)
                         ELSE \E late \in {"", "Failed to sync temp file", "Failed to open zip file"} :
                                IF late # ""
                                THEN XReturn(Err(Error(late, <<>>)), o2.fs)
                                ELSE IF response = "not_zip"
                                THEN XReturn(Err(Error("Failed to open zip archive", <<>>)), o2.fs)
                                ELSE /\ xpc' = "extract"
                                     /\ entry_i' = 1
                                     /\ disk' = o2.fs
                                     /\ UNCHANGED xresult

\* the loop goes on with the next entry
NextEntry(f) ==
    /\ xpc' = "extract"
    /\ entry_i' = entry_i + 1
    /\ disk' = f
    /\ UNCHANGED xresult

\* one turn of the loop over the entries
ExtractEntry ==
    /\ xpc = "extract"
    /\ entry_i <= Len(archive)
    /\ UNCHANGED <<archive, disk0, first_run, runs, createVars, loaded_from, readmeVars, hostVars>>
    /\ \/ XReturn(Err(Error("Failed to get file from archive", <<>>)), disk)
       \/ LET file == archive[entry_i]
              enclosed == enclosed_name(file.name)
              full_path == Join(target_dir, StripPrefix(enclosed.path))
          IN  IF ~enclosed.some
              THEN NextEntry(disk)
              ELSE IF file.dir
              THEN \E o \in CreateDirAllViaOutcomes(disk, full_path) :
                     IF Failed(o)
                     THEN XReturn(Err(Error("Failed to create dir", <<full_path>>)), o.fs)
                     ELSE NextEntry(o.fs)
              ELSE \E o1 \in CreateDirAllViaOutcomes(disk, Parent(full_path)) :
                     IF Failed(o1)
                     THEN XReturn(Err(Error("Failed to create parent dir", <<Parent(full_path)>>)), o1.fs)
                     ELSE \E o2 \in ExtractFileOutcomes(o1.fs, Resolved(full_path), file.data) :
                            IF Failed(o2)
                            THEN XReturn(Err(Error("Failed to create or extract file", <<full_path>>)), o2.fs)
                            ELSE NextEntry(o2.fs)
    /\ written' = written \cup {q \in DOMAIN disk : disk'[q] # disk[q]}

\* after the last entry: the temporary file is removed, a failure of the
\* removal is dropped, and the call returns Ok(())
Finish ==
    /\ xpc = "extract"
    /\ entry_i > Len(archive)
    /\ UNCHANGED <<archive, disk0, written, first_run, runs, createVars, loaded_from, readmeVars, hostVars>>
    /\ \E f \in {RemoveFile(disk, temp_zip), disk} : XReturn(Ok(<<>>), f)

IngestNext ==
    \/ Download
    \/ ExtractEntry
    \/ Finish

IngestSpec == IngestInit /\ [][IngestNext]_vars

(***************************************************************************)
(* The claims about the ingestor.                                          *)
(***************************************************************************)
\* q is target_dir or lies below it
Inside(q) == Len(q) >= Len(target_dir) /\ SubSeq(q, 1, Len(target_dir)) = target_dir

TargetPaths == {q \in DiskPaths : Inside(q)}

\* an entry path without the root folder, when that is its first component
WithoutRoot(parts) ==
    IF Len(parts) >= 1 /\ Head(parts) = RootPrefix THEN Tail(parts) ELSE parts

\* where an entry belongs below target_dir
EntryTarget(e) == Resolved(Join(target_dir, WithoutRoot(e.name.parts)))

\* the places below target_dir that the prefix-stripped paths of the entries
\* of the archive lead to
ArchivePaths == {EntryTarget(archive[n]) : n \in DOMAIN archive}

\* the last call has returned
XReturned == xpc = "idle" /\ runs >= 1

Traversal(name) == name.abs \/ \E n \in DOMAIN name.parts : name.parts[n] = ".."

\* the step of the entry archive[entry_i] that does not end with by_index failing
EntryStep == xpc = "extract" /\ entry_i <= Len(archive) /\ xresult' = xresult

\* C16: whatever a turn of the extraction loop creates or changes lies inside
\* targetDir, and an entry whose name is absolute or has a ".." is skipped:
\* nothing is written and the loop goes on with the next entry.
C16_WritesStayInside ==
    [][EntryStep =>
        /\ \A q \in DOMAIN disk : disk'[q] # disk[q] => Inside(q)
        /\ Traversal(archive[entry_i].name) => (disk' = disk /\ entry_i' = entry_i + 1)]_vars

\* C17: a turn of the loop that succeeds on an entry without traversal puts
\* the entry at targetDir/<path>, where <path> is the entry's path without the
\* root folder if that is its first component, and the entry's path unchanged
\* otherwise: a directory for a directory entry, a file with the entry's bytes
\* for a file entry.
C17_RootPrefixStripped ==
    [][(EntryStep /\ entry_i' = entry_i + 1 /\ ~Traversal(archive[entry_i].name)) =>
        LET e == archive[entry_i]
            path == Join(target_dir, WithoutRoot(e.name.parts))
        IN  disk'[path] = IF e.dir THEN Dir ELSE File(e.data)]_vars

\* the entry <root>/a/b was written to targetDir/a/b, and the next entry has
\* the root folder's name as a later component
C17_Witness ==
    /\ xpc = "extract"
    /\ entry_i = 2
    /\ Len(archive) = 2
    /\ archive[1].name.parts = <<RootPrefix, "a", "b">>
    /\ archive[2].name.parts = <<"a", RootPrefix>>
    /\ disk[Join(target_dir, <<"a", "b">>)] = File(archive[1].data)

LastForItsPath(n) ==
    /\ ~archive[n].dir
    /\ enclosed_name(archive[n].name).some
    /\ \A m \in DOMAIN archive :
         (m > n /\ ~archive[m].dir /\ enclosed_name(archive[m].name).some)
             => EntryTarget(archive[m]) # EntryTarget(archive[n])

EarlyErrors ==
    {"Failed to download from", "HTTP error", "Failed to read response bytes",
     "Failed to create temp file", "Failed to write temp file", "Failed to sync temp file",
     "Failed to open zip file", "Failed to open zip archive"}

Extracted(f, e) ==
    IF e.dir THEN f[EntryTarget(e)].kind = "dir" ELSE f[EntryTarget(e)] = File(e.data)

\* among the entries before entry k, entry n is the last file entry for its path
LastBefore(n, k) ==
    \A m \in (n + 1)..(k - 1) :
        (~archive[m].dir /\ enclosed_name(archive[m].name).some)
            => EntryTarget(archive[m]) # EntryTarget(archive[n])

\* C21: a turn of the extraction loop either puts its entry in place and goes
\* on with the next one, or ends the call with an error; in that case no later
\* entry is processed (the call has returned), and every entry extracted before
\* is still on disk: a directory is a directory, a file is a file, and it has
\* the bytes of its entry unless the failing entry was being written to the
\* same path.
C21_EntryFailureIsFatal ==
    [][(xpc = "extract" /\ entry_i <= Len(archive)) =>
        \/ /\ xpc' = "extract"
           /\ entry_i' = entry_i + 1
           /\ enclosed_name(archive[entry_i].name).some => Extracted(disk', archive[entry_i])
        \/ /\ xpc' = "idle"
           /\ xresult'.status = "err"
           /\ \A n \in 1..(entry_i - 1) :
                enclosed_name(archive[n].name).some =>
                    /\ disk'[EntryTarget(archive[n])].kind = IF archive[n].dir THEN "dir" ELSE "file"
                    /\ (LastBefore(n, entry_i) /\ EntryTarget(archive[n]) # EntryTarget(archive[entry_i]))
                           => Extracted(disk', archive[n])]_vars

\* the second entry failed after the first, a file that was not there before,
\* was extracted: the call returned the error and the first file is there
C21_Witness ==
    /\ XReturned
    /\ xresult.status = "err"
    /\ xresult.err.msg = "Failed to create or extract file"
    /\ Len(archive) = 2
    /\ ~archive[1].dir
    /\ enclosed_name(archive[1].name).some
    /\ EntryTarget(archive[1]) # EntryTarget(archive[2])
    /\ disk0[EntryTarget(archive[1])].kind = "none"
    /\ Extracted(disk, archive[1])
    /\ ~Extracted(disk, archive[2])

(***************************************************************************)
(* More claims about create_project.                                       *)
(***************************************************************************)
PhaseRank(phase) ==
    CASE phase = "root" -> 1
      [] phase = "dirs" -> 2
      [] phase = "templates" -> 3
      [] phase = "empty" -> 4
      [] phase = "readme" -> 5
      [] OTHER -> 6

\* the phases between two phases, both excluded
PhasesBetween(from, to) ==
    {ph \in {"dirs", "templates", "empty"} : PhaseRank(from) < PhaseRank(ph) /\ PhaseRank(ph) < PhaseRank(to)}

\* the paths the file-system calls and decisions of item i of the phase pc are about
ItemPaths ==
    CASE pc = "root" -> {project_path}
      [] pc = "dirs" -> {Join(project_path, cfg.directories[i])}
      [] pc = "templates" -> {CurrentSource, CurrentDest, Parent(CurrentDest)}
      [] pc = "empty" -> {Join(project_path, cfg.empty_files[i]), Parent(Join(project_path, cfg.empty_files[i]))}
      [] OTHER -> {Join(project_path, README)}

\* the kinds of file-system calls and decisions of the phase pc
PhaseOps ==
    CASE pc \in {"root", "dirs"} -> {"mkdir"}
      [] pc = "templates" -> {"skip", "warn", "mkparent", "copy"}
      [] pc = "empty" -> {"skip", "mkparent", "touch"}
      [] OTHER -> {"readme", "write", "keep"}

\* C28: a running call steps through root, directories, templates, empty
\* files, README in this order; a step is about the next item of its phase in
\* descriptor order; a phase is left only after its last item, for the next
\* phase that has items; and when a file is copied, created or written, the
\* target root and every declared directory exist as directories.
C28_PhasesInOrder ==
    [][(pc \in {"root", "dirs", "templates", "empty", "readme"}) =>
       (
        /\ \A n \in NewOps : ops'[n].op \in PhaseOps /\ ops'[n].path \in ItemPaths
        /\ \/ pc' = "idle"
           \/ pc' = pc /\ i' = i + 1 /\ i' <= PhaseLen(pc)
           \/ /\ PhaseRank(pc') > PhaseRank(pc)
              /\ i' = 1
              /\ i = PhaseLen(pc) \/ pc = "root"
              /\ \A ph \in PhasesBetween(pc, pc') : PhaseLen(ph) = 0
        /\ (\E n \in NewOps : ops'[n].op \in {"copy", "touch", "readme", "write"})
               => (\A d \in DeclaredDirs \cup {project_path} : fs[d].kind = "dir")
       )]_vars

\* a successful call with a declared directory, two copied templates and an
\* empty file
C28_Witness ==
    /\ Returned
    /\ result.status = "ok"
    /\ Len(cfg.directories) = 1
    /\ Len(cfg.templates) = 2
    /\ Len(cfg.empty_files) = 1
    /\ Cardinality({n \in DOMAIN ops : ops[n].op = "copy" /\ ops[n].ok}) = 2
    /\ \E n \in DOMAIN ops : ops[n].op = "touch" /\ ops[n].ok

CurrentEmpty == Join(project_path, cfg.empty_files[i])

\* C29: a step of the empty-file phase on a path that exists, with refresh
\* false, leaves every file as it is and logs a skip; any other step of the
\* phase that does not fail leaves the parent directories in place and the
\* file with length zero, whatever it held before.
C29_EmptyFilePhase ==
    [][(pc = "empty") =>
       (IF fs[CurrentEmpty].kind # "none" /\ ~refresh
        THEN /\ fs' = fs
             /\ log_lines' = Append(log_lines, <<"Skipping existing empty file", CurrentEmpty>>)
             /\ MovedOn("empty")
        ELSE (pc' # "idle") =>
               (/\ fs'[CurrentEmpty] = File(<<>>)
                /\ \A q \in Ancestors(CurrentEmpty) \cup {project_path} : fs'[q].kind = "dir"
                /\ log_lines' = Append(log_lines, <<"Creating empty file", CurrentEmpty>>)))]_vars

\* with refresh true, the declared empty file c, which held bytes, was
\* truncated
C29_Witness ==
    /\ refresh
    /\ pc = "readme"
    /\ Len(cfg.empty_files) = 1
    /\ cfg.empty_files[1] = <<"c">>
    /\ fs0[<<"c">>] = File(<<"u">>)
    /\ fs[<<"c">>] = File(<<>>)

\* the call went past the check of the target
Proceeded == calls >= 1 /\ (pc # "idle" \/ Len(ops) >= 1)

\* C30: the error about a non-empty target is returned only for a target
\* directory with an entry and force false; a target that does not exist or is
\* a directory without entries proceeds to the creation of the root, and with
\* force true every target directory does.
C30_OnlyNonEmptyRejected ==
    /\ (calls >= 1 /\ edited = {} /\ pc = "idle"
         /\ result.err.msg = "Project directory already exists and is not empty")
            => (NonEmptyDir(fs0, project_path) /\ ~force)
    /\ (calls >= 1 /\ (EmptyOrAbsent(fs0) \/ (force /\ IsDir(fs0, project_path))))
            => Proceeded

\* a call without force on a target directory that exists and has no entry
\* returned success
C30_Witness ==
    /\ Returned
    /\ result.status = "ok"
    /\ ~force
    /\ IsDir(fs0, project_path)
    /\ Children(fs0, project_path) = {}

(***************************************************************************)
(* The stored presets path: load_presets_path_from_global_namespace.       *)
(***************************************************************************)
PRESETS_PATH_ENV_VAR == "AI_PROJECT_TEMPLATE_PRESETS_PATH"

\* a variable of the environment: not set, set to a string, or set to bytes
\* that are not valid Unicode
Unset == [set |-> FALSE, unicode |-> FALSE, value |-> <<>>]

SetTo(value) == [set |-> TRUE, unicode |-> TRUE, value |-> value]

SetToBytes(value) == [set |-> TRUE, unicode |-> FALSE, value |-> value]

VarNames == {PRESETS_PATH_ENV_VAR, "HOME", "USERPROFILE"}

\* the environments of the process; strings are sequences of characters
Environments ==
    {env \in [VarNames -> {Unset, SetTo(<<>>), SetTo(<<"p">>), SetTo(<<" ", "p">>),
                           SetTo(<<"h">>), SetTo(<<"w">>), SetToBytes(<<"?">>)}] :
        /\ env[PRESETS_PATH_ENV_VAR] \in {Unset, SetTo(<<>>), SetTo(<<"p">>), SetTo(<<" ", "p">>), SetToBytes(<<"?">>)}
        /\ env["HOME"] \in {Unset, SetTo(<<"h">>), SetToBytes(<<"?">>)}
        /\ env["USERPROFILE"] \in {Unset, SetTo(<<"w">>)}}

\* std::env::var: the value of a variable that is set to valid Unicode, an
\* error for every other variable
env_var(env, name) ==
    IF env[name].set /\ env[name].unicode
    THEN [ok |-> TRUE, value |-> env[name].value]
    ELSE [ok |-> FALSE, value |-> <<>>]

\* env::var("HOME").or_else(|_| env::var("USERPROFILE"))
home_var(env) ==
    IF env_var(env, "HOME").ok THEN env_var(env, "HOME") ELSE env_var(env, "USERPROFILE")

Whitespace == {" ", "\n"}

RECURSIVE TrimStart(_)
TrimStart(text) ==
    IF Len(text) > 0 /\ Head(text) \in Whitespace THEN TrimStart(Tail(text)) ELSE text

RECURSIVE TrimEnd(_)
TrimEnd(text) ==
    IF Len(text) > 0 /\ text[Len(text)] \in Whitespace
    THEN TrimEnd(SubSeq(text, 1, Len(text) - 1))
    ELSE text

\* str::trim
trim(text) == TrimEnd(TrimStart(text))

\* presets_path.txt below a home directory: no such file, a file that cannot
\* be read as text, or its text
Missing == [kind |-> "missing", text |-> <<>>]

Unreadable == [kind |-> "unreadable", text |-> <<>>]

Text(text) == [kind |-> "text", text |-> text]

ConfigFileStates ==
    {Missing, Unreadable, Text(<<>>), Text(<<" ", "\n">>), Text(<<"q">>),
     Text(<<" ", "q", "\n">>), Text(<<"q", " ", "r">>)}

Homes == {<<"h">>, <<"w">>}

\* fs::read_to_string(&config_file)
read_to_string(files, home) ==
    IF home \in DOMAIN files /\ files[home].kind = "text"
    THEN [ok |-> TRUE, value |-> files[home].text]
    ELSE [ok |-> FALSE, value |-> <<>>]

load_presets_path_from_global_namespace(env, files) ==
    IF env_var(env, PRESETS_PATH_ENV_VAR).ok
    THEN Some(env_var(env, PRESETS_PATH_ENV_VAR).value)
    ELSE IF home_var(env).ok
         THEN LET content == read_to_string(files, home_var(env).value)
              IN  IF content.ok /\ trim(content.value) # <<>>
                  THEN Some(trim(content.value))
                  ELSE None
         ELSE None

NotLoaded == [calls |-> 0, value |-> None]

PathInit ==
    /\ environment \in Environments
    /\ config_files \in [Homes -> ConfigFileStates]
    /\ loaded_path = NotLoaded
    /\ NoCreate
    /\ NoReadmeRuns
    /\ NoIngestor
    /\ NoPair
    /\ NoWindow

\* the call at the start of the application
LoadPresetsPath ==
    /\ loaded_path.calls = 0
    /\ loaded_path' = [calls |-> 1,
                       value |-> load_presets_path_from_global_namespace(environment, config_files)]
    /\ UNCHANGED <<environment, config_files, createVars, loaded_from, readmeVars, archiveVars,
                   pairVars, uiVars>>

PathNext == LoadPresetsPath

PathSpec == PathInit /\ [][PathNext]_vars

\* the file the claim is about: presets_path.txt below the home directory
\* the environment names
PathFile ==
    IF home_var(environment).ok THEN config_files[home_var(environment).value] ELSE Missing

\* C27: the function returns the value of AI_PROJECT_TEMPLATE_PRESETS_PATH
\* whenever that variable is set, whatever the config file holds; when it is
\* not set it returns the trimmed content of presets_path.txt, and None when
\* that file is missing, unreadable or blank.
C27_VariableFirstThenFile ==
    loaded_path.calls = 1 =>
        IF environment[PRESETS_PATH_ENV_VAR].set
        THEN loaded_path.value = Some(environment[PRESETS_PATH_ENV_VAR].value)
        ELSE loaded_path.value =
                 IF PathFile.kind = "text" /\ trim(PathFile.text) # <<>>
                 THEN Some(trim(PathFile.text))
                 ELSE None

(***************************************************************************)
(* Two calls of download_and_extract_presets that run at the same time.    *)
(***************************************************************************)
Jobs == {1, 2}

\* the target directories of the calls: the path without a parent, two
\* directories next to each other, and one below another directory
TargetDirs == {<<>>, <<"t">>, <<"u">>, <<"v", "w">>}

ArchiveCodes == {"1", "2", "3"}

\* the archives a URL may serve: the file a with two contents, and a file
\* with the name of the temporary file
ServedArchive(code) ==
    CASE code = "1" -> <<[name |-> EntryName(FALSE, <<RootPrefix, "a">>), dir |-> FALSE, data |-> <<"p">>]>>
      [] code = "2" -> <<[name |-> EntryName(FALSE, <<RootPrefix, "a">>), dir |-> FALSE, data |-> <<"q">>]>>
      [] OTHER -> <<[name |-> EntryName(FALSE, <<RootPrefix, "presets_temp.zip">>), dir |-> FALSE, data |-> <<"p">>]>>

\* the bytes of the body of an archive
ZipBytes(code) == <<"P", "K", code>>

\* ZipArchive::new on the bytes of a file
ZipArchiveNew(bytes) ==
    IF Len(bytes) = 3 /\ bytes[1] = "P" /\ bytes[2] = "K" /\ bytes[3] \in ArchiveCodes
    THEN [ok |-> TRUE, entries |-> ServedArchive(bytes[3])]
    ELSE [ok |-> FALSE, entries |-> <<>>]

\* the paths of the tree the two calls work on
SharedPaths ==
    UNION {{d, Parent(d), TempZip(d), Join(d, <<"a">>), Join(d, <<"presets_temp.zip">>)} : d \in TargetDirs}

\* the tree before the calls: the target directories exist and are empty
InitialShared ==
    [q \in SharedPaths |-> IF q \in TargetDirs \cup {Parent(d) : d \in TargetDirs} THEN Dir ELSE Absent]

\* File::create, write_all and sync_all of the temporary file
PersistTemp(f, dir, code) == [f EXCEPT ![TempZip(dir)] = File(ZipBytes(code))]

\* File::open of the temporary file and ZipArchive::new
OpenTemp(f, dir) ==
    IF f[TempZip(dir)].kind # "file"
    THEN [ok |-> FALSE, entries |-> <<>>, err |-> Error("Failed to open zip file", <<>>)]
    ELSE IF ~ZipArchiveNew(f[TempZip(dir)].data).ok
         THEN [ok |-> FALSE, entries |-> <<>>, err |-> Error("Failed to open zip archive", <<>>)]
         ELSE [ok |-> TRUE, entries |-> ZipArchiveNew(f[TempZip(dir)].data).entries, err |-> NoError]

\* target_dir.join(outpath) of an entry, when the entry is not skipped
FullPath(dir, e) == Resolved(Join(dir, StripPrefix(enclosed_name(e.name).path)))

RECURSIVE ExtractAll(_, _, _)
\* the loop over the entries, for archives of files
ExtractAll(f, dir, entries) ==
    IF Len(entries) = 0 THEN f
    ELSE IF ~enclosed_name(Head(entries).name).some
         THEN ExtractAll(f, dir, Tail(entries))
         ELSE ExtractAll([f EXCEPT ![FullPath(dir, Head(entries))] = File(Head(entries).data)],
                         dir, Tail(entries))

\* the places the loop writes
ExtractionTargets(dir, entries) ==
    {FullPath(dir, entries[n]) : n \in {m \in DOMAIN entries : enclosed_name(entries[m].name).some}}

NewJob(dir, response, code) ==
    [target_dir |-> dir, response |-> response, code |-> code, pc |-> "start",
     entries |-> <<>>, result |-> NoResult, used |-> {}]

PairInit ==
    /\ shared = InitialShared
    /\ job \in [Jobs -> {NewJob(dir, response, code) :
                            dir \in TargetDirs, response \in {"unreachable", "zip"}, code \in ArchiveCodes}]
    /\ NoCreate
    /\ NoReadmeRuns
    /\ NoIngestor
    /\ NoPathLoad
    /\ NoWindow

outsidePair == <<createVars, loaded_from, readmeVars, archiveVars, pathVars, uiVars>>

\* reqwest::get, the status and the body
Fetch(r) ==
    /\ job[r].pc = "start"
    /\ job' = [job EXCEPT ![r] =
                 IF job[r].response = "zip"
                 THEN [@ EXCEPT !.pc = "fetched"]
                 ELSE [@ EXCEPT !.pc = "done", !.result = Err(Error("Failed to download from", <<>>))]]
    /\ UNCHANGED <<shared, outsidePair>>

\* the temporary file is written
Persist(r) ==
    /\ job[r].pc = "fetched"
    /\ shared' = PersistTemp(shared, job[r].target_dir, job[r].code)
    /\ job' = [job EXCEPT ![r] = [@ EXCEPT !.pc = "written", !.used = @ \cup {TempZip(job[r].target_dir)}]]
    /\ UNCHANGED outsidePair

\* the temporary file is opened and read as an archive
Open(r) ==
    /\ job[r].pc = "written"
    /\ LET o == OpenTemp(shared, job[r].target_dir)
       IN  job' = [job EXCEPT ![r] =
                     IF o.ok
                     THEN [@ EXCEPT !.pc = "opened", !.entries = o.entries]
                     ELSE [@ EXCEPT !.pc = "done", !.result = Err(o.err)]]
    /\ UNCHANGED <<shared, outsidePair>>

\* the entries are extracted
Extract(r) ==
    /\ job[r].pc = "opened"
    /\ shared' = ExtractAll(shared, job[r].target_dir, job[r].entries)
    /\ job' = [job EXCEPT ![r] =
                 [@ EXCEPT !.pc = "extracted",
                           !.used = @ \cup ExtractionTargets(job[r].target_dir, job[r].entries)]]
    /\ UNCHANGED outsidePair

\* the temporary file is removed and the call returns
Remove(r) ==
    /\ job[r].pc = "extracted"
    /\ shared' = RemoveFile(shared, TempZip(job[r].target_dir))
    /\ job' = [job EXCEPT ![r] = [@ EXCEPT !.pc = "done", !.result = Ok(<<>>)]]
    /\ UNCHANGED outsidePair

PairNext == \E r \in Jobs : Fetch(r) \/ Persist(r) \/ Open(r) \/ Extract(r) \/ Remove(r)

PairSpec == PairInit /\ [][PairNext]_vars

\* q is target_dir or lies below it
Below(dir, q) == Len(q) >= Len(dir) /\ SubSeq(q, 1, Len(dir)) = dir

\* C22: for every target_dir, the temporary file a call has written lies in
\* the parent directory of target_dir, not in target_dir, and is none of the
\* places the call extracts to.
C22_TempOutsideTarget ==
    \A r \in Jobs :
        job[r].pc \in {"written", "opened", "extracted"} =>
            /\ ~Below(job[r].target_dir, TempZip(job[r].target_dir))
            /\ TempZip(job[r].target_dir) \notin ExtractionTargets(job[r].target_dir, ServedArchive(job[r].code))

\* what a call returns and leaves when it runs alone on the tree f
RunAlone(f, j) ==
    IF j.response # "zip"
    THEN [result |-> Err(Error("Failed to download from", <<>>)), tree |-> f]
    ELSE LET written_tree == PersistTemp(f, j.target_dir, j.code)
             o == OpenTemp(written_tree, j.target_dir)
         IN  IF ~o.ok
             THEN [result |-> Err(o.err), tree |-> written_tree]
             ELSE [result |-> Ok(<<>>),
                   tree |-> RemoveFile(ExtractAll(written_tree, j.target_dir, o.entries), TempZip(j.target_dir))]

\* C25: two calls with different target directories, neither below the
\* other, interleaved in any way, use no common file, and each returns what
\* it returns alone and leaves its target directory as it does alone.
C25_DifferentTargetsIndependent ==
    (/\ job[1].pc = "done"
     /\ job[2].pc = "done"
     /\ ~Below(job[1].target_dir, job[2].target_dir)
     /\ ~Below(job[2].target_dir, job[1].target_dir))
        => /\ job[1].used \cap job[2].used = {}
           /\ \A r \in Jobs :
                /\ job[r].result = RunAlone(InitialShared, job[r]).result
                /\ \A q \in SharedPaths :
                     Below(job[r].target_dir, q) => shared[q] = RunAlone(InitialShared, job[r]).tree[q]

(***************************************************************************)
(* The window: AppState, its update function and the commands it starts.   *)
(***************************************************************************)
OptNone == [some |-> FALSE]

Opt(v) == [some |-> TRUE, value |-> v]

LowerLetters ==
    <<"a", "b", "c", "d", "e", "f", "g", "h", "i", "j", "k", "l", "m",
      "n", "o", "p", "q", "r", "s", "t", "u", "v", "w", "x", "y", "z">>

UpperLetters ==
    <<"A", "B", "C", "D", "E", "F", "G", "H", "I", "J", "K", "L", "M",
      "N", "O", "P", "Q", "R", "S", "T", "U", "V", "W", "X", "Y", "Z">>

Digits == {"0", "1", "2", "3", "4", "5", "6", "7", "8", "9"}

Range(seq) == {seq[n] : n \in DOMAIN seq}

\* [A-Za-z0-9]
FirstClass == Range(LowerLetters) \cup Range(UpperLetters) \cup Digits

\* [A-Za-z0-9._-]
RestClass == FirstClass \cup {".", "_", "-"}

\* char::to_ascii_uppercase
AsciiUpperChar(c) ==
    IF c \in Range(LowerLetters)
    THEN UpperLetters[CHOOSE n \in DOMAIN LowerLetters : LowerLetters[n] = c]
    ELSE c

\* str::to_ascii_uppercase
to_ascii_uppercase(name) == [n \in DOMAIN name |-> AsciiUpperChar(name[n])]

\* Regex ^[A-Za-z0-9][A-Za-z0-9._-]{0,63}$
RegexIsMatch(name) ==
    /\ Len(name) >= 1
    /\ Len(name) - 1 <= 63
    /\ name[1] \in FirstClass
    /\ \A n \in 2..Len(name) : name[n] \in RestClass

RESERVED ==
    {<<"C", "O", "N">>, <<"P", "R", "N">>, <<"A", "U", "X">>, <<"N", "U", "L">>}
        \cup {<<"C", "O", "M", d>> : d \in Digits \ {"0"}}
        \cup {<<"L", "P", "T", d>> : d \in Digits \ {"0"}}

\* the check of the name that compares with RESERVED as the name is written
IsValidCaseSensitive(name) ==
    /\ RegexIsMatch(name)
    /\ name[Len(name)] \notin {".", " "}
    /\ name \notin RESERVED

is_valid_project_name(name) ==
    /\ RegexIsMatch(name)
    /\ name[Len(name)] \notin {".", " "}
    /\ to_ascii_uppercase(name) \notin RESERVED

\* the names the user may type
ProjectNames ==
    {<<"c", "o", "n">>, <<"a", ".">>, [n \in 1..64 |-> "a"], [n \in 1..65 |-> "a"]}

\* the directory a stored path names, and the one the folder dialog returns
StoredDir == "d"

PickedDir == "e"

UiPresetIds == {"software", "book"}

\* what discover_presets may find in a presets directory
Discoverable == {<<>>, <<"book">>, <<"book", "software">>}

\* the PresetConfig in files_config.json of a preset: its fields and options
ConfigOf(id) ==
    IF id = "software"
    THEN [id |-> id, name |-> "Software", fields |-> <<"k">>, options |-> <<[id |-> "o", default |-> TRUE]>>]
    ELSE [id |-> id, name |-> "Book", fields |-> <<>>, options |-> <<[id |-> "o", default |-> FALSE]>>]

\* HashMap::insert
Insert(map, key, value) == {pair \in map : pair[1] # key} \cup {<<key, value>>}

\* the commands of Command::perform
PickFolder == [kind |-> "pick_folder"]

DownloadCmd(dir) == [kind |-> "download", dir |-> dir]

DiscoverCmd(dir) == [kind |-> "discover", dir |-> dir]

LoadConfigCmd(dir, id) == [kind |-> "load_config", dir |-> dir, id |-> id]

CreateCmd(a) ==
    [kind |-> "create", project_path |-> a.project_name, presets_dir |-> a.presets_dir.value,
     preset_config |-> a.preset_config.value, project_name |-> a.project_name,
     dynamic_fields |-> a.dynamic_fields, dynamic_options |-> a.dynamic_options]

\* what update leaves: the state and the command it returns
Out(a, spawn) == [app |-> a, spawn |-> spawn]

\* the last LogWindow lines of a log
Recent(lines) == SubSeq(lines, IF Len(lines) > LogWindow THEN Len(lines) - LogWindow + 1 ELSE 1, Len(lines))

\* log_lines.push(line)
Push(a, line) == [a EXCEPT !.log_lines = Recent(Append(@, line))]

can_create(a) ==
    /\ ~a.is_busy
    /\ trim(a.project_name) # <<>>
    /\ is_valid_project_name(a.project_name)
    /\ a.preset_config.some
    /\ a.presets_dir.some

NameChanged(a, name) ==
    Out([a EXCEPT !.project_name = name,
                  !.project_name_error = IF is_valid_project_name(name) THEN "" ELSE "Invalid name"],
        <<>>)

PresetSelected(a, preset_id) ==
    LET named == [a EXCEPT !.selected_preset = preset_id,
                           !.selected_preset_display_name =
                               IF preset_id.some /\ \E pair \in a.preset_names : pair[1] = preset_id.value
                               THEN Opt((CHOOSE pair \in a.preset_names : pair[1] = preset_id.value)[2])
                               ELSE OptNone]
    IN  IF preset_id.some
        THEN IF a.presets_dir.some
             THEN Out(Push(named, "Loading preset config"),
                      <<LoadConfigCmd(a.presets_dir.value, preset_id.value)>>)
             ELSE Out(named, <<>>)
        ELSE Out([named EXCEPT !.preset_config = OptNone, !.dynamic_fields = {}, !.dynamic_options = {}],
                 <<>>)

FieldChanged(a, field_id, value) ==
    Out([a EXCEPT !.dynamic_fields = Insert(@, field_id, value)], <<>>)

OptionToggled(a, option_id, enabled) ==
    Out([a EXCEPT !.dynamic_options = Insert(@, option_id, enabled)], <<>>)

PresetsPathSelected(a, path) ==
    IF path.some THEN Out(a, <<DownloadCmd(path.value)>>) ELSE Out(a, <<>>)

\* saved: whether save_presets_path_to_global_namespace succeeded
PresetsDownloaded(a, outcome, saved) ==
    IF outcome.ok
    THEN LET warned == IF saved THEN a ELSE Push(a, "Warning: Failed to save presets path")
         IN  Out(Push([warned EXCEPT !.presets_dir = Opt(outcome.value)],
                      "Presets downloaded successfully. Scanning for available presets..."),
                 <<DiscoverCmd(outcome.value)>>)
    ELSE Out(Push([a EXCEPT !.is_busy = FALSE, !.show_dialog = FALSE], "Error downloading presets"), <<>>)

\* PresetsLoaded without preset_display_names.clear(): the names of a scan are
\* pushed after those of the scan before
PresetsLoadedNoClear(a, outcome, names) ==
    IF outcome.ok
    THEN LET ids == outcome.value
             known == a.presets_dir.some
             loaded == [a EXCEPT !.available_presets = ids,
                                 !.preset_names =
                                     IF known THEN {<<ids[n], names[ids[n]]>> : n \in DOMAIN ids}
                                     ELSE {},
                                 !.preset_display_names =
                                     IF known THEN @ \o [n \in DOMAIN ids |-> names[ids[n]]] ELSE @,
                                 !.presets_initialized = TRUE,
                                 !.is_busy = FALSE,
                                 !.show_dialog = FALSE]
             found == Push(loaded, "Found preset(s)")
         IN  IF \E n \in DOMAIN ids : ids[n] = "software"
             THEN PresetSelected(found, Opt("software"))
             ELSE IF Len(ids) > 0
                  THEN PresetSelected(found, Opt(ids[1]))
                  ELSE Out(found, <<>>)
    ELSE Out(Push([a EXCEPT !.is_busy = FALSE, !.show_dialog = FALSE], "Error loading ids"), <<>>)

\* names: what get_preset_display_name returns for each preset
PresetsLoaded(a, outcome, names) ==
    IF outcome.ok
    THEN LET ids == outcome.value
             known == a.presets_dir.some
             loaded == [a EXCEPT !.available_presets = ids,
                                 !.preset_names =
                                     IF known THEN {<<ids[n], names[ids[n]]>> : n \in DOMAIN ids}
                                     ELSE {},
                                 !.preset_display_names =
                                     IF known THEN [n \in DOMAIN ids |-> names[ids[n]]] ELSE <<>>,
                                 !.presets_initialized = TRUE,
                                 !.is_busy = FALSE,
                                 !.show_dialog = FALSE]
             found == Push(loaded, "Found preset(s)")
         IN  IF \E n \in DOMAIN ids : ids[n] = "software"
             THEN PresetSelected(found, Opt("software"))
             ELSE IF Len(ids) > 0
                  THEN PresetSelected(found, Opt(ids[1]))
                  ELSE Out(found, <<>>)
    ELSE Out(Push([a EXCEPT !.is_busy = FALSE, !.show_dialog = FALSE], "Error loading ids"), <<>>)

RECURSIVE InsertDefaults(_, _)
\* for opt in &config.options { dynamic_options.insert(opt.id, opt.default) }
InsertDefaults(map, options) ==
    IF Len(options) = 0 THEN map
    ELSE InsertDefaults(Insert(map, Head(options).id, Head(options).default), Tail(options))

PresetConfigLoaded(a, outcome) ==
    IF outcome.ok
    THEN Out(Push([a EXCEPT !.preset_config = Opt(outcome.value),
                            !.dynamic_options = InsertDefaults(@, outcome.value.options)],
                  "Preset loaded"),
             <<>>)
    ELSE Out(Push(a, "Error loading preset config"), <<>>)

RefreshPresets(a) ==
    IF a.presets_dir.some
    THEN Out([Push([a EXCEPT !.is_busy = TRUE], "Downloading and updating presets from GitHub...")
                 EXCEPT !.show_dialog = TRUE, !.dialog_progress = "0", !.dialog_start = TRUE],
             <<DownloadCmd(a.presets_dir.value)>>)
    ELSE Out(Push(a, "No presets directory set"), <<>>)

Create(a) ==
    IF ~can_create(a)
    THEN Out(a, <<>>)
    ELSE Out([a EXCEPT !.is_busy = TRUE, !.log_lines = <<>>, !.show_dialog = TRUE,
                       !.dialog_progress = "0", !.dialog_start = TRUE],
             <<CreateCmd(a)>>)

\* ProcessFinished without self.is_busy = false
ProcessFinishedStaysBusy(a, lines, success) ==
    Out([a EXCEPT !.log_lines = Recent((@ \o lines) \o
                                           <<IF success THEN "Project created successfully!"
                                             ELSE "Project creation failed!">>)],
        <<>>)

ProcessFinished(a, lines, success) ==
    Out([a EXCEPT !.log_lines = Recent((@ \o lines) \o
                                           <<IF success THEN "Project created successfully!"
                                             ELSE "Project creation failed!">>),
                  !.is_busy = FALSE],
        <<>>)

\* over: whether min_busy_ms have passed since dialog_start
Tick(a, over) ==
    IF a.dialog_start
    THEN IF over
         THEN Out([a EXCEPT !.show_dialog = FALSE, !.dialog_start = FALSE, !.dialog_progress = "0"], <<>>)
         ELSE Out([a EXCEPT !.dialog_progress = "part"], <<>>)
    ELSE Out(a, <<>>)

\* the state AppState::new builds
NewAppState ==
    [presets_dir |-> OptNone, available_presets |-> <<>>, preset_names |-> {},
     preset_display_names |-> <<>>, selected_preset |-> OptNone,
     selected_preset_display_name |-> OptNone, preset_config |-> OptNone,
     dynamic_fields |-> {}, dynamic_options |-> {}, project_name |-> <<>>,
     project_name_error |-> "", is_busy |-> FALSE, log_lines |-> <<>>,
     show_dialog |-> FALSE, dialog_progress |-> "0", dialog_start |-> FALSE,
     presets_initialized |-> FALSE]

\* AppState::new: with a stored path the presets are listed, without one the
\* folder dialog opens
UiInit ==
    /\ \E stored \in {OptNone, Opt(StoredDir)} :
         IF stored.some
         THEN /\ app = [NewAppState EXCEPT !.presets_dir = stored]
              /\ commands = <<DiscoverCmd(stored.value)>>
         ELSE /\ app = NewAppState
              /\ commands = <<PickFolder>>
    /\ user_msgs = [all |-> 0, refreshes |-> 0]
    /\ NoCreate
    /\ NoReadmeRuns
    /\ NoIngestor
    /\ NoPathLoad
    /\ NoPair

outsideUi == <<createVars, loaded_from, readmeVars, archiveVars, pathVars, pairVars>>

\* update has handled a message: the state it left, and the command it
\* returned joins those that run
Handled(out, running) ==
    /\ app' = out.app
    /\ commands' = running \o out.spawn
    /\ UNCHANGED outsideUi

\* a message the view sends when the user acts
FromUser(out) ==
    /\ user_msgs.all < MaxUserMsgs
    /\ user_msgs' = [all |-> user_msgs.all + 1,
                     refreshes |-> user_msgs.refreshes + IF out = RefreshPresets(app) THEN 1 ELSE 0]
    /\ Handled(out, commands)

UserNameChanged == \E name \in ProjectNames : FromUser(NameChanged(app, name))

\* the pick_list shows preset_display_names and sends the id at the position
\* of the name picked, or the name when there is no such position
UserPresetSelected ==
    /\ Len(app.available_presets) > 0
    /\ \E m \in DOMAIN app.preset_display_names :
         LET display_name == app.preset_display_names[m]
             idx == CHOOSE n \in DOMAIN app.preset_display_names :
                       /\ app.preset_display_names[n] = display_name
                       /\ \A k \in 1..(n - 1) : app.preset_display_names[k] # display_name
             preset_id == IF idx <= Len(app.available_presets)
                          THEN app.available_presets[idx]
                          ELSE display_name
         IN  FromUser(PresetSelected(app, Opt(preset_id)))

UserFieldChanged ==
    /\ app.preset_config.some
    /\ \E n \in DOMAIN app.preset_config.value.fields :
         FromUser(FieldChanged(app, app.preset_config.value.fields[n], "x"))

\* a checkbox shows the stored value of its option, or the default of the
\* option when none is stored, and sends the other value
UserOptionToggled ==
    /\ app.preset_config.some
    /\ \E n \in DOMAIN app.preset_config.value.options :
         LET opt == app.preset_config.value.options[n]
             opt_enabled == IF \E pair \in app.dynamic_options : pair[1] = opt.id
                            THEN (CHOOSE pair \in app.dynamic_options : pair[1] = opt.id)[2]
                            ELSE opt.default
         IN  FromUser(OptionToggled(app, opt.id, ~opt_enabled))

UserRefreshPresets ==
    /\ user_msgs.refreshes < MaxRefreshes
    /\ FromUser(RefreshPresets(app))

\* the Create button; a press may reach update after the state that enabled
\* the button has changed, so the message can come in every state
UserCreate == FromUser(Create(app))

\* the subscription sends Tick while the dialog shows
TimerTick ==
    /\ app.show_dialog
    /\ \E over \in BOOLEAN :
         /\ Tick(app, over).app # app
         /\ Handled(Tick(app, over), commands)
    /\ UNCHANGED user_msgs

Without(seq, n) == SubSeq(seq, 1, n - 1) \o SubSeq(seq, n + 1, Len(seq))

Success(v) == [ok |-> TRUE, value |-> v]

Failure == [ok |-> FALSE]

\* a command ends and update handles its message
Deliver(n) ==
    /\ n \in DOMAIN commands
    /\ UNCHANGED user_msgs
    /\ LET c == commands[n]
           running == Without(commands, n)
       IN  CASE c.kind = "pick_folder" ->
                  \E path \in {OptNone, Opt(PickedDir)} :
                     Handled(PresetsPathSelected(app, path), running)
             [] c.kind = "download" ->
                  \E outcome \in {Success(c.dir), Failure}, saved \in BOOLEAN :
                     /\ outcome.ok \/ saved
                     /\ Handled(PresetsDownloaded(app, outcome, saved), running)
             [] c.kind = "discover" ->
                  \E outcome \in {Success(found) : found \in Discoverable} \cup {Failure},
                     names \in {[id \in UiPresetIds |-> ConfigOf(id).name], [id \in UiPresetIds |-> id]} :
                     /\ (outcome.ok /\ Len(outcome.value) > 0) \/ \A id \in UiPresetIds : names[id] = id
                     /\ Handled(PresetsLoaded(app, outcome, names), running)
             [] c.kind = "load_config" ->
                  \E outcome \in {Success(ConfigOf(c.id)), Failure} :
                     Handled(PresetConfigLoaded(app, outcome), running)
             [] OTHER ->
                  \E success \in BOOLEAN :
                     Handled(ProcessFinished(app, IF success THEN <<"Project created successfully!">>
                                                  ELSE <<"Error">>, success),
                             running)

UiNext ==
    \/ UserNameChanged
    \/ UserPresetSelected
    \/ UserFieldChanged
    \/ UserOptionToggled
    \/ UserRefreshPresets
    \/ UserCreate
    \/ TimerTick
    \/ \E n \in DOMAIN commands : Deliver(n)

UiSpec == UiInit /\ [][UiNext]_vars

InFlight(kind) == SelectSeq(commands, LAMBDA c : c.kind = kind)

\* C23: in every state of the window at most one create_project command is
\* in flight, whatever the order of Create, RefreshPresets, PresetsDownloaded,
\* PresetsLoaded and ProcessFinished.
C23_OneCreateInFlight == Len(InFlight("create")) <= 1

\* C24: in every state of the window no two download_and_extract_presets
\* commands with the same target directory are in flight.
C24_OneIngestorPerTarget ==
    \A m, n \in DOMAIN commands :
        (m # n /\ commands[m].kind = "download" /\ commands[n].kind = "download")
            => commands[m].dir # commands[n].dir

\* the letters of both names are the same when their case is ignored
SameIgnoringCase(name, other) ==
    /\ Len(name) = Len(other)
    /\ \A n \in DOMAIN name :
         \/ name[n] = other[n]
         \/ \E k \in DOMAIN LowerLetters : {name[n], other[n]} = {LowerLetters[k], UpperLetters[k]}

\* the contract of a project name: one letter or digit, then at most 63
\* letters, digits, dots, underscores or hyphens; no dot or space at the
\* end; no reserved device name in any letter case
NameContract(name) ==
    /\ Len(name) \in 1..64
    /\ name[1] \in FirstClass
    /\ \A n \in 2..Len(name) : name[n] \in RestClass
    /\ name[Len(name)] # "."
    /\ name[Len(name)] # " "
    /\ ~\E device \in RESERVED : SameIgnoringCase(name, device)

\* C26: every create_project command the window has started carries a project
\* name that meets the contract, and a Create message that finds a name that
\* does not meet it starts no command and changes nothing in AppState.
C26_ValidNameOrNothing ==
    /\ \A n \in DOMAIN commands :
         commands[n].kind = "create" => NameContract(commands[n].project_name)
    /\ ~NameContract(app.project_name) => Create(app) = Out(app, <<>>)

\* a create_project command runs under a name of 64 characters while the
\* field holds the reserved name con
C26_Witness ==
    /\ \E n \in DOMAIN commands :
         commands[n].kind = "create" /\ Len(commands[n].project_name) = 64
    /\ app.project_name = <<"c", "o", "n">>

(***************************************************************************)
(* The temporary archive after the ingestor has returned.                  *)
(***************************************************************************)
\* the errors returned after presets_temp.zip was written in full: of the
\* sync, of the opening of the file and of the archive, and of an entry
AfterTempErrors ==
    {"Failed to sync temp file", "Failed to open zip file", "Failed to open zip archive",
     "Failed to get file from archive", "Failed to create dir", "Failed to create parent dir",
     "Failed to create or extract file"}

\* C31: when a call that wrote presets_temp.zip has returned a fatal error (a
\* corrupt archive, a failure of an entry), the temporary file is gone: no
\* file is at temp_zip.
C31_TempFileRemoved ==
    (XReturned /\ xresult.status = "err" /\ xresult.err.msg \in AfterTempErrors)
        => disk[temp_zip].kind # "file"

(***************************************************************************)
(* What a forced call leaves alone.                                        *)
(***************************************************************************)
\* the destinations of the templates, copied or not
TemplateDests == {DestOf(k) : k \in DOMAIN cfg.templates}

\* the paths a call may write a file to
WritablePaths == TemplateDests \cup DeclaredEmpty \cup {Join(project_path, README)}

\* the files that were in the tree when the call started
PreExistingFiles == {q \in TreePaths : fs0[q].kind = "file"}

\* C32: during and after a call with force true on a target directory that
\* had an entry, a file that was there before the call and whose path is not
\* the destination of a template, not a declared empty file and not README.md
\* is as it was; with refresh false every file that was there before the call
\* is as it was.
C32_ForcedCallFrame ==
    (calls >= 1 /\ edited = {} /\ force /\ NonEmptyDir(fs0, project_path))
        => \A q \in PreExistingFiles :
             (q \notin WritablePaths \/ ~refresh) => fs[q] = fs0[q]

\* a forced call without refresh on a tree that had a file at a path the call
\* may write to has succeeded and has added something to the tree
C32_Witness ==
    /\ Returned
    /\ force
    /\ ~refresh
    /\ NonEmptyDir(fs0, project_path)
    /\ result.status = "ok"
    /\ PreExistingFiles \cap WritablePaths # {}
    /\ fs # fs0

(***************************************************************************)
(* is_busy and the commands in flight.                                     *)
(***************************************************************************)
\* a create_project command runs on the presets directory that a
\* download_and_extract_presets command in flight extracts into
CreateDuringIngestion ==
    \E m, n \in DOMAIN commands :
        /\ commands[m].kind = "create"
        /\ commands[n].kind = "download"
        /\ commands[m].presets_dir = commands[n].dir

\* C33: in every state of the window is_busy is true when a create_project or
\* a download_and_extract_presets command is in flight, and no create_project
\* command runs on a presets directory while an ingestion into it is running.
C33_BusyWhileInFlight ==
    /\ (InFlight("create") # <<>> \/ InFlight("download") # <<>>) => app.is_busy
    /\ ~CreateDuringIngestion

(***************************************************************************)
(* The configuration and the values that Create hands to create_project.   *)
(***************************************************************************)
\* C34: in every state of the window with no load_preset_config command in
\* flight, preset_config is None or it is the configuration of
\* selected_preset, so that an accepted Create passes the configuration of
\* the preset that is selected.
C34_ConfigOfSelectedPreset ==
    InFlight("load_config") = <<>> =>
        \/ ~app.preset_config.some
        \/ /\ app.selected_preset.some
           /\ app.preset_config.value.id = app.selected_preset.value

\* the ids of the fields and of the options of a configuration
ConfigFieldIds(config) == {config.fields[n] : n \in DOMAIN config.fields}

ConfigOptionIds(config) == {config.options[n].id : n \in DOMAIN config.options}

\* C35: in every state of the window where the configuration of the selected
\* preset is loaded and no load is in flight, every entry of dynamic_fields is
\* for a field of that preset and every entry of dynamic_options is for an
\* option of that preset: no entry set for a preset selected before is left.
C35_ValuesOfCurrentPreset ==
    (/\ InFlight("load_config") = <<>>
     /\ app.preset_config.some
     /\ app.selected_preset.some
     /\ app.preset_config.value.id = app.selected_preset.value)
        => /\ \A pair \in app.dynamic_fields : pair[1] \in ConfigFieldIds(app.preset_config.value)
           /\ \A pair \in app.dynamic_options : pair[1] \in ConfigOptionIds(app.preset_config.value)

(***************************************************************************)
(* The two lists behind the pick_list.                                     *)
(***************************************************************************)
\* C37: in every state of the window available_presets and
\* preset_display_names have the same length, and the name at a position of
\* preset_display_names is the name that preset_names records for the preset
\* at that position of available_presets.
C37_DisplayNamesAligned ==
    /\ Len(app.available_presets) = Len(app.preset_display_names)
    /\ \A n \in DOMAIN app.available_presets :
         <<app.available_presets[n], app.preset_display_names[n]>> \in app.preset_names

\* a second scan has replaced the lists of the first: two presets are listed
\* under names that differ from their ids, after a scan that found one
C37_Witness ==
    /\ app.available_presets = <<"book", "software">>
    /\ app.preset_display_names = <<ConfigOf("book").name, ConfigOf("software").name>>
    /\ user_msgs.refreshes >= 1
    /\ InFlight("discover") = <<>>
    /\ InFlight("download") = <<>>

(***************************************************************************)
(* The window with its executor: every future that Command::perform has    *)
(* handed to the runtime runs to its end, and update then handles its      *)
(* message.  While a command is in flight, a delivery is enabled, so weak  *)
(* fairness of the deliveries says that commands do not hang forever.      *)
(***************************************************************************)
\* the messages of the user in a run of the window with its executor
MaxLiveUserMsgs == 3

UiLiveNext ==
    \/ user_msgs.all < MaxLiveUserMsgs /\ UserNameChanged
    \/ user_msgs.all < MaxLiveUserMsgs /\ UserPresetSelected
    \/ user_msgs.all < MaxLiveUserMsgs /\ UserFieldChanged
    \/ user_msgs.all < MaxLiveUserMsgs /\ UserOptionToggled
    \/ user_msgs.all < MaxLiveUserMsgs /\ UserRefreshPresets
    \/ user_msgs.all < MaxLiveUserMsgs /\ UserCreate
    \/ TimerTick
    \/ \E n \in DOMAIN commands : Deliver(n)

UiLiveSpec ==
    /\ UiInit
    /\ [][UiLiveNext]_vars
    /\ WF_vars(\E n \in DOMAIN commands : Deliver(n))

\* C36: the window does not stay busy forever: from every state with is_busy
\* true (after an accepted Create or RefreshPresets) a state with is_busy
\* false is reached, and from every state with a create_project command in
\* flight a state is reached where its ProcessFinished has been handled and
\* no create_project command is in flight, whatever the commands return.
C36_NeverBusyForever ==
    /\ app.is_busy ~> ~app.is_busy
    /\ (InFlight("create") # <<>>) ~> (InFlight("create") = <<>>)

\* after a refresh and an accepted Create everything has finished: the last
\* message was the ProcessFinished of a successful create_project, and
\* is_busy is false
C36_Witness ==
    /\ user_msgs.refreshes >= 1
    /\ commands = <<>>
    /\ app.log_lines = <<"Project created successfully!">>
    /\ ~app.is_busy

====
